---------------------------- MODULE Spec2Model ----------------------------
(***************************************************************************)
(* The news pipeline of news_bot_free.py: NewsFilter (fingerprints, the    *)
(* persisted set of published hashes, filter_news), FreeNewsProcessor      *)
(* (clean_html, translate_text, shorten_text, process_news),               *)
(* TelegramPublisher.publish_news and NewsBot (process_city_news,          *)
(* run_once, run), together with process crashes and restarts.             *)
(*                                                                         *)
(* Spec is the program with every failure it can meet, within a budget of  *)
(* failures; SpecRun is one process that nothing kills; SpecLive is the    *)
(* program run for ever with feeds that answer and sends that succeed;     *)
(* SpecParser is NewsParser.parse_rss with _extract_image on one feed      *)
(* drawn from a pool of entries.                                           *)
(*                                                                         *)
(* A text is a tuple of one-character strings; a character outside ASCII   *)
(* is written as one token ("e_grave", "n_tilde"), and the Russian texts   *)
(* of the program (city names, hashtags, translations) are transliterated. *)
(*                                                                         *)
(* Line 156 of news_bot_free.py (the return of _extract_image's sixth      *)
(* method) is indented one space deeper than the body it belongs to, so    *)
(* Python rejects the file as it stands (IndentationError). The model      *)
(* reads the line as a statement of that body, which is what the comments  *)
(* around it describe.                                                     *)
(***************************************************************************)
EXTENDS Naturals, Sequences, FiniteSets, TLC

\* Python's None.
None == "None"

----------------------------------------------------------------------------
\* Bounds of the model.

\* run_once invocations over all process lifetimes.
MaxRuns == 2

\* Faults over all process lifetimes: a feed that does not answer, a
\* translation that raises, a send that fails, a state file write that does not
\* complete, a crash of the process.
MaxFaults == 3

----------------------------------------------------------------------------
\* Text primitives (Python str operations used by the program).

\* str.lower() on one character.
LowerChar(c) ==
    CASE c = "A" -> "a" [] c = "B" -> "b" [] c = "C" -> "c" [] c = "D" -> "d"
      [] c = "E" -> "e" [] c = "F" -> "f" [] c = "G" -> "g" [] c = "H" -> "h"
      [] c = "I" -> "i" [] c = "J" -> "j" [] c = "K" -> "k" [] c = "L" -> "l"
      [] c = "M" -> "m" [] c = "N" -> "n" [] c = "O" -> "o" [] c = "P" -> "p"
      [] c = "Q" -> "q" [] c = "R" -> "r" [] c = "S" -> "s" [] c = "T" -> "t"
      [] c = "U" -> "u" [] c = "V" -> "v" [] c = "W" -> "w" [] c = "X" -> "x"
      [] c = "Y" -> "y" [] c = "Z" -> "z" [] c = "E_grave" -> "e_grave"
      [] c = "N_tilde" -> "n_tilde" [] OTHER -> c

\* str.lower()
Lower(s) == [k \in 1..Len(s) |-> LowerChar(s[k])]

\* `sub in s` for strings.
Contains(s, sub) ==
    \E k \in 0..(Len(s) - Len(sub)) :
        \A j \in 1..Len(sub) : s[k + j] = sub[j]

\* s.endswith(suffix)
EndsWith(s, suffix) ==
    /\ Len(s) >= Len(suffix)
    /\ \A j \in 1..Len(suffix) : s[Len(s) - Len(suffix) + j] = suffix[j]

\* s[:n]
Prefix(s, n) == SubSeq(s, 1, IF Len(s) < n THEN Len(s) ELSE n)

\* Characters str.strip() removes.
Whitespace == {" ", "\n", "\t", "\r"}

Min(S) == CHOOSE x \in S : \A y \in S : x <= y

Max(S) == CHOOSE x \in S : \A y \in S : x >= y

\* str.strip()
Strip(s) ==
    LET keep == {k \in 1..Len(s) : s[k] \notin Whitespace}
    IN  IF keep = {} THEN <<>> ELSE SubSeq(s, Min(keep), Max(keep))

\* s.replace(old, new) for single characters.
ReplaceChar(s, old, new) ==
    [k \in 1..Len(s) |-> IF s[k] = old THEN new ELSE s[k]]

\* s.split(sep) for a single-character separator: the pieces between the
\* separators, empty pieces included.
Split(s, sep) ==
    LET seps == {k \in 1..Len(s) : s[k] = sep}
        \* Position of the i-th separator; 0 before the text, Len(s) + 1 after.
        SepPos(i) ==
            IF i = 0 THEN 0
            ELSE IF i > Cardinality(seps) THEN Len(s) + 1
            ELSE CHOOSE k \in seps : Cardinality({j \in seps : j <= k}) = i
    IN  [i \in 1..(Cardinality(seps) + 1) |->
            SubSeq(s, SepPos(i - 1) + 1, SepPos(i) - 1)]

\* sep.join(parts)
RECURSIVE Join(_, _)
Join(sep, parts) ==
    IF parts = <<>> THEN <<>>
    ELSE IF Len(parts) = 1 THEN parts[1]
    ELSE parts[1] \o sep \o Join(sep, Tail(parts))

\* [f(x) for x in xs]: here s.strip() for every piece.
StripAll(parts) == [k \in 1..Len(parts) |-> Strip(parts[k])]

\* [x for x in xs if x]
NonEmpty(parts) == SelectSeq(parts, LAMBDA p : p # <<>>)

----------------------------------------------------------------------------
\* The feed entries of the model, as parse_rss returns them: item k has
\* title Title[k], link Link[k], description Description[k] and image_url
\* ImageUrl[k].

Title ==
       (* 1: 'Fiesta en Alicante' *)
    << <<"F","i","e","s","t","a"," ","e","n"," ","A","l","i","c","a","n","t","e">>,
       (* 2: 'Fiesta en Alicante' *)
       <<"F","i","e","s","t","a"," ","e","n"," ","A","l","i","c","a","n","t","e">>,
       (* 3: 'Se vende piso en Madrid' *)
       <<"S","e"," ","v","e","n","d","e"," ","p","i","s","o"," ","e","n"," ","M","a","d","r","i","d">>,
       (* 4: 'Noticias de Madrid' *)
       <<"N","o","t","i","c","i","a","s"," ","d","e"," ","M","a","d","r","i","d">>,
       (* 5: 'Alicante hoy' *)
       <<"A","l","i","c","a","n","t","e"," ","h","o","y">>,
       (* 6: '' *)
       <<>>,
       (* 7: 'Verano en la Costa' *)
       <<"V","e","r","a","n","o"," ","e","n"," ","l","a"," ","C","o","s","t","a">>,
       (* 8: 'Alicante 1' *)
       <<"A","l","i","c","a","n","t","e"," ","1">>,
       (* 9: 'Alicante 11' *)
       <<"A","l","i","c","a","n","t","e"," ","1","1">>,
       (* 10: 'Tren Alicante Valencia' *)
       <<"T","r","e","n"," ","A","l","i","c","a","n","t","e"," ","V","a","l","e","n","c","i","a">>,
       (* 11: 'Fallas' *)
       <<"F","a","l","l","a","s">>,
       (* 12: 'Barcelona abre museo' *)
       <<"B","a","r","c","e","l","o","n","a"," ","a","b","r","e"," ","m","u","s","e","o">>,
       (* 13: 'Madrid gana' *)
       <<"M","a","d","r","i","d"," ","g","a","n","a">>,
       (* 14: 'Barcelona en fotos 1' *)
       <<"B","a","r","c","e","l","o","n","a"," ","e","n"," ","f","o","t","o","s"," ","1">>,
       (* 15: 'Barcelona en fotos 2' *)
       <<"B","a","r","c","e","l","o","n","a"," ","e","n"," ","f","o","t","o","s"," ","2">>,
       (* 16: 'Barcelona en fotos 3' *)
       <<"B","a","r","c","e","l","o","n","a"," ","e","n"," ","f","o","t","o","s"," ","3">>,
       (* 17: 'Barcelona en fotos 4' *)
       <<"B","a","r","c","e","l","o","n","a"," ","e","n"," ","f","o","t","o","s"," ","4">>,
       (* 18: 'Barcelona en fotos 5' *)
       <<"B","a","r","c","e","l","o","n","a"," ","e","n"," ","f","o","t","o","s"," ","5">>,
       (* 19: 'Liga jornada 1' *)
       <<"L","i","g","a"," ","j","o","r","n","a","d","a"," ","1">>,
       (* 20: 'Liga jornada 2' *)
       <<"L","i","g","a"," ","j","o","r","n","a","d","a"," ","2">>,
       (* 21: 'Liga jornada 3' *)
       <<"L","i","g","a"," ","j","o","r","n","a","d","a"," ","3">>,
       (* 22: 'Liga jornada 4' *)
       <<"L","i","g","a"," ","j","o","r","n","a","d","a"," ","4">>,
       (* 23: 'Liga jornada 5' *)
       <<"L","i","g","a"," ","j","o","r","n","a","d","a"," ","5">>,
       (* 24: 'Liga jornada 6' *)
       <<"L","i","g","a"," ","j","o","r","n","a","d","a"," ","6">>,
       (* 25: 'Liga jornada 7' *)
       <<"L","i","g","a"," ","j","o","r","n","a","d","a"," ","7">>,
       (* 26: 'Liga jornada 8' *)
       <<"L","i","g","a"," ","j","o","r","n","a","d","a"," ","8">>,
       (* 27: 'Liga jornada 9' *)
       <<"L","i","g","a"," ","j","o","r","n","a","d","a"," ","9">>,
       (* 28: 'Valencia estrena tranvia' *)
       <<"V","a","l","e","n","c","i","a"," ","e","s","t","r","e","n","a"," ","t","r","a","n","v","i","a">> >>

Link ==
       (* 1: 'https://x.es/1' *)
    << <<"h","t","t","p","s",":","/","/","x",".","e","s","/","1">>,
       (* 2: 'https://x.es/1' *)
       <<"h","t","t","p","s",":","/","/","x",".","e","s","/","1">>,
       (* 3: 'https://x.es/3' *)
       <<"h","t","t","p","s",":","/","/","x",".","e","s","/","3">>,
       (* 4: 'https://x.es/4' *)
       <<"h","t","t","p","s",":","/","/","x",".","e","s","/","4">>,
       (* 5: 'https://x.es/5' *)
       <<"h","t","t","p","s",":","/","/","x",".","e","s","/","5">>,
       (* 6: 'https://x.es/6' *)
       <<"h","t","t","p","s",":","/","/","x",".","e","s","/","6">>,
       (* 7: 'https://x.es/7' *)
       <<"h","t","t","p","s",":","/","/","x",".","e","s","/","7">>,
       (* 8: '1.html' *)
       <<"1",".","h","t","m","l">>,
       (* 9: '.html' *)
       <<".","h","t","m","l">>,
       (* 10: 'https://x.es/10' *)
       <<"h","t","t","p","s",":","/","/","x",".","e","s","/","1","0">>,
       (* 11: 'https://v.es/11' *)
       <<"h","t","t","p","s",":","/","/","v",".","e","s","/","1","1">>,
       (* 12: 'https://b.es/12' *)
       <<"h","t","t","p","s",":","/","/","b",".","e","s","/","1","2">>,
       (* 13: 'https://v.es/13' *)
       <<"h","t","t","p","s",":","/","/","v",".","e","s","/","1","3">>,
       (* 14: 'https://b.es/14' *)
       <<"h","t","t","p","s",":","/","/","b",".","e","s","/","1","4">>,
       (* 15: 'https://b.es/15' *)
       <<"h","t","t","p","s",":","/","/","b",".","e","s","/","1","5">>,
       (* 16: 'https://b.es/16' *)
       <<"h","t","t","p","s",":","/","/","b",".","e","s","/","1","6">>,
       (* 17: 'https://b.es/17' *)
       <<"h","t","t","p","s",":","/","/","b",".","e","s","/","1","7">>,
       (* 18: 'https://b.es/18' *)
       <<"h","t","t","p","s",":","/","/","b",".","e","s","/","1","8">>,
       (* 19: 'https://v.es/19' *)
       <<"h","t","t","p","s",":","/","/","v",".","e","s","/","1","9">>,
       (* 20: 'https://v.es/20' *)
       <<"h","t","t","p","s",":","/","/","v",".","e","s","/","2","0">>,
       (* 21: 'https://v.es/21' *)
       <<"h","t","t","p","s",":","/","/","v",".","e","s","/","2","1">>,
       (* 22: 'https://v.es/22' *)
       <<"h","t","t","p","s",":","/","/","v",".","e","s","/","2","2">>,
       (* 23: 'https://v.es/23' *)
       <<"h","t","t","p","s",":","/","/","v",".","e","s","/","2","3">>,
       (* 24: 'https://v.es/24' *)
       <<"h","t","t","p","s",":","/","/","v",".","e","s","/","2","4">>,
       (* 25: 'https://v.es/25' *)
       <<"h","t","t","p","s",":","/","/","v",".","e","s","/","2","5">>,
       (* 26: 'https://v.es/26' *)
       <<"h","t","t","p","s",":","/","/","v",".","e","s","/","2","6">>,
       (* 27: 'https://v.es/27' *)
       <<"h","t","t","p","s",":","/","/","v",".","e","s","/","2","7">>,
       (* 28: 'https://v.es/28' *)
       <<"h","t","t","p","s",":","/","/","v",".","e","s","/","2","8">> >>

Description ==
       (* 1: '<p>Gran evento. Habra musica. No te lo pierdas!</p>' *)
    << <<"<","p",">","G","r","a","n"," ","e","v","e","n","t","o","."," ","H","a","b","r","a"," ","m","u","s","i","c","a","."," ","N","o"," ","t","e"," ","l","o"," ","p","i","e","r","d","a","s","!","<","/","p",">">>,
       (* 2: 'Gran evento en ALICANTE. Musica y teatro.' *)
       <<"G","r","a","n"," ","e","v","e","n","t","o"," ","e","n"," ","A","L","I","C","A","N","T","E","."," ","M","u","s","i","c","a"," ","y"," ","t","e","a","t","r","o",".">>,
       (* 3: 'Anuncio breve.' *)
       <<"A","n","u","n","c","i","o"," ","b","r","e","v","e",".">>,
       (* 4: 'El alcalde habla hoy.' *)
       <<"E","l"," ","a","l","c","a","l","d","e"," ","h","a","b","l","a"," ","h","o","y",".">>,
       (* 5: '<b>Hoy</b> si. No. Ya! Pero luego habra mas.' *)
       <<"<","b",">","H","o","y","<","/","b",">"," ","s","i","."," ","N","o","."," ","Y","a","!"," ","P","e","r","o"," ","l","u","e","g","o"," ","h","a","b","r","a"," ","m","a","s",".">>,
       (* 6: 'El tiempo en Alacant sera bueno' *)
       <<"E","l"," ","t","i","e","m","p","o"," ","e","n"," ","A","l","a","c","a","n","t"," ","s","e","r","a"," ","b","u","e","n","o">>,
       (* 7: 'Blanca y radiante luce la playa.' *)
       <<"B","l","a","n","c","a"," ","y"," ","r","a","d","i","a","n","t","e"," ","l","u","c","e"," ","l","a"," ","p","l","a","y","a",".">>,
       (* 8: 'Primera nota sobre la ciudad.' *)
       <<"P","r","i","m","e","r","a"," ","n","o","t","a"," ","s","o","b","r","e"," ","l","a"," ","c","i","u","d","a","d",".">>,
       (* 9: 'Sorteo de entradas para todos.' *)
       <<"S","o","r","t","e","o"," ","d","e"," ","e","n","t","r","a","d","a","s"," ","p","a","r","a"," ","t","o","d","o","s",".">>,
       (* 10: 'Nuevo tren rapido entre ciudades.' *)
       <<"N","u","e","v","o"," ","t","r","e","n"," ","r","a","p","i","d","o"," ","e","n","t","r","e"," ","c","i","u","d","a","d","e","s",".">>,
       (* 11: 'La Comunitat Valenciana celebra las fallas.' *)
       <<"L","a"," ","C","o","m","u","n","i","t","a","t"," ","V","a","l","e","n","c","i","a","n","a"," ","c","e","l","e","b","r","a"," ","l","a","s"," ","f","a","l","l","a","s",".">>,
       (* 12: 'El museo abre hoy. Entrada libre.' *)
       <<"E","l"," ","m","u","s","e","o"," ","a","b","r","e"," ","h","o","y","."," ","E","n","t","r","a","d","a"," ","l","i","b","r","e",".">>,
       (* 13: 'Partido de futbol.' *)
       <<"P","a","r","t","i","d","o"," ","d","e"," ","f","u","t","b","o","l",".">>,
       (* 14: 'Galeria.' *)
       <<"G","a","l","e","r","i","a",".">>,
       (* 15: 'Galeria.' *)
       <<"G","a","l","e","r","i","a",".">>,
       (* 16: 'Galeria.' *)
       <<"G","a","l","e","r","i","a",".">>,
       (* 17: 'Galeria.' *)
       <<"G","a","l","e","r","i","a",".">>,
       (* 18: 'Galeria.' *)
       <<"G","a","l","e","r","i","a",".">>,
       (* 19: 'Resultados de la jornada.' *)
       <<"R","e","s","u","l","t","a","d","o","s"," ","d","e"," ","l","a"," ","j","o","r","n","a","d","a",".">>,
       (* 20: 'Resultados de la jornada.' *)
       <<"R","e","s","u","l","t","a","d","o","s"," ","d","e"," ","l","a"," ","j","o","r","n","a","d","a",".">>,
       (* 21: 'Resultados de la jornada.' *)
       <<"R","e","s","u","l","t","a","d","o","s"," ","d","e"," ","l","a"," ","j","o","r","n","a","d","a",".">>,
       (* 22: 'Resultados de la jornada.' *)
       <<"R","e","s","u","l","t","a","d","o","s"," ","d","e"," ","l","a"," ","j","o","r","n","a","d","a",".">>,
       (* 23: 'Resultados de la jornada.' *)
       <<"R","e","s","u","l","t","a","d","o","s"," ","d","e"," ","l","a"," ","j","o","r","n","a","d","a",".">>,
       (* 24: 'Resultados de la jornada.' *)
       <<"R","e","s","u","l","t","a","d","o","s"," ","d","e"," ","l","a"," ","j","o","r","n","a","d","a",".">>,
       (* 25: 'Resultados de la jornada.' *)
       <<"R","e","s","u","l","t","a","d","o","s"," ","d","e"," ","l","a"," ","j","o","r","n","a","d","a",".">>,
       (* 26: 'Resultados de la jornada.' *)
       <<"R","e","s","u","l","t","a","d","o","s"," ","d","e"," ","l","a"," ","j","o","r","n","a","d","a",".">>,
       (* 27: 'Resultados de la jornada.' *)
       <<"R","e","s","u","l","t","a","d","o","s"," ","d","e"," ","l","a"," ","j","o","r","n","a","d","a",".">>,
       (* 28: 'La nueva linea de tranvia abre el lunes.' *)
       <<"L","a"," ","n","u","e","v","a"," ","l","i","n","e","a"," ","d","e"," ","t","r","a","n","v","i","a"," ","a","b","r","e"," ","e","l"," ","l","u","n","e","s",".">> >>

\* image_url: what _extract_image found for the entry, or None.
ImageUrl ==
    <<None,
      "https://x.es/1.jpg",
      None,
      None,
      None,
      None,
      "https://x.es/7.jpg",
      None,
      None,
      "https://x.es/10.jpg",
      None,
      None,
      None,
      None,
      None,
      None,
      None,
      None,
      None,
      None,
      None,
      None,
      None,
      None,
      None,
      None,
      None,
      None>>

\* source: the title of the feed the entry came from.
Source ==
    <<"Informacion",
      "Alicante Plaza",
      "Informacion",
      "Informacion",
      "Informacion",
      "Alicante Plaza",
      "Alicante Plaza",
      "Alicante Hoy",
      "Alicante Hoy",
      "Alicante Hoy",
      "Las Provincias",
      "La Vanguardia",
      "Valencia Plaza",
      "La Vanguardia",
      "La Vanguardia",
      "La Vanguardia",
      "La Vanguardia",
      "La Vanguardia",
      "Valencia Plaza",
      "Valencia Plaza",
      "Valencia Plaza",
      "Valencia Plaza",
      "Valencia Plaza",
      "Valencia Plaza",
      "Valencia Plaza",
      "Valencia Plaza",
      "Valencia Plaza",
      "Valencia Plaza">>

Items == 1..Len(Title)

\* hashlib.md5(content.encode()).hexdigest() of the contents the entries
\* above give.
Md5Table ==
    <<"F","i","e","s","t","a"," ","e","n"," ","A","l","i","c","a","n","t","e","h","t","t","p","s",":","/","/","x",".","e","s","/","1">>
       :> "1557fa1f7fb6efe6dd39a8de222e4a9c"
    @@ <<"S","e"," ","v","e","n","d","e"," ","p","i","s","o"," ","e","n"," ","M","a","d","r","i","d","h","t","t","p","s",":","/","/","x",".","e","s","/","3">>
       :> "5caad342fdfd4dd427831525c9a86d4c"
    @@ <<"N","o","t","i","c","i","a","s"," ","d","e"," ","M","a","d","r","i","d","h","t","t","p","s",":","/","/","x",".","e","s","/","4">>
       :> "d8c5f89169d885bd7e464d8b35073e7a"
    @@ <<"A","l","i","c","a","n","t","e"," ","h","o","y","h","t","t","p","s",":","/","/","x",".","e","s","/","5">>
       :> "d895ca6d36fefc6634636b0cbdeae582"
    @@ <<"h","t","t","p","s",":","/","/","x",".","e","s","/","6">>
       :> "ee455e22076622a878ea9c3f5fb1e180"
    @@ <<"V","e","r","a","n","o"," ","e","n"," ","l","a"," ","C","o","s","t","a","h","t","t","p","s",":","/","/","x",".","e","s","/","7">>
       :> "103e549cf2ea25982d870c91a72eb579"
    @@ <<"A","l","i","c","a","n","t","e"," ","1","1",".","h","t","m","l">>
       :> "f4a97c9eb5aba19975d4914a00e7495e"
    @@ <<"T","r","e","n"," ","A","l","i","c","a","n","t","e"," ","V","a","l","e","n","c","i","a","h","t","t","p","s",":","/","/","x",".","e","s","/","1","0">>
       :> "5353413322375d353f71afec1215aa3e"
    @@ <<"F","a","l","l","a","s","h","t","t","p","s",":","/","/","v",".","e","s","/","1","1">>
       :> "64036a160c6cc4151a4a508f6740f8a1"
    @@ <<"B","a","r","c","e","l","o","n","a"," ","a","b","r","e"," ","m","u","s","e","o","h","t","t","p","s",":","/","/","b",".","e","s","/","1","2">>
       :> "752acdf099223a93ab1b1b8d6aa19715"
    @@ <<"M","a","d","r","i","d"," ","g","a","n","a","h","t","t","p","s",":","/","/","v",".","e","s","/","1","3">>
       :> "8a58320ab6c2dec10a329af66a351cb6"
    @@ <<"B","a","r","c","e","l","o","n","a"," ","e","n"," ","f","o","t","o","s"," ","1","h","t","t","p","s",":","/","/","b",".","e","s","/","1","4">>
       :> "665b6256dcba83d97059505913a98826"
    @@ <<"B","a","r","c","e","l","o","n","a"," ","e","n"," ","f","o","t","o","s"," ","2","h","t","t","p","s",":","/","/","b",".","e","s","/","1","5">>
       :> "6fa991a2928fef4627831eec60c205c6"
    @@ <<"B","a","r","c","e","l","o","n","a"," ","e","n"," ","f","o","t","o","s"," ","3","h","t","t","p","s",":","/","/","b",".","e","s","/","1","6">>
       :> "665c6287bbad322d8c86f964a543f94b"
    @@ <<"B","a","r","c","e","l","o","n","a"," ","e","n"," ","f","o","t","o","s"," ","4","h","t","t","p","s",":","/","/","b",".","e","s","/","1","7">>
       :> "50188a100c68b1eb6a3bc1ce13f8b741"
    @@ <<"B","a","r","c","e","l","o","n","a"," ","e","n"," ","f","o","t","o","s"," ","5","h","t","t","p","s",":","/","/","b",".","e","s","/","1","8">>
       :> "7490d207568a6ea87aea726495663ee5"
    @@ <<"L","i","g","a"," ","j","o","r","n","a","d","a"," ","1","h","t","t","p","s",":","/","/","v",".","e","s","/","1","9">>
       :> "94c89e5e5f50bacd87eaccc24d2b03c2"
    @@ <<"L","i","g","a"," ","j","o","r","n","a","d","a"," ","2","h","t","t","p","s",":","/","/","v",".","e","s","/","2","0">>
       :> "2586e481f56dc9b0bf906933ba36cd85"
    @@ <<"L","i","g","a"," ","j","o","r","n","a","d","a"," ","3","h","t","t","p","s",":","/","/","v",".","e","s","/","2","1">>
       :> "4e0c67e87f53bb10ee688435901efb0e"
    @@ <<"L","i","g","a"," ","j","o","r","n","a","d","a"," ","4","h","t","t","p","s",":","/","/","v",".","e","s","/","2","2">>
       :> "2a03c1013818a4d4ca8fef2afa608b18"
    @@ <<"L","i","g","a"," ","j","o","r","n","a","d","a"," ","5","h","t","t","p","s",":","/","/","v",".","e","s","/","2","3">>
       :> "aed8805a902602c6aec78322fd00fc8d"
    @@ <<"L","i","g","a"," ","j","o","r","n","a","d","a"," ","6","h","t","t","p","s",":","/","/","v",".","e","s","/","2","4">>
       :> "f6e38c70fc3a41922166ad7567ffa2b2"
    @@ <<"L","i","g","a"," ","j","o","r","n","a","d","a"," ","7","h","t","t","p","s",":","/","/","v",".","e","s","/","2","5">>
       :> "92f5cd2c4bf1a681c55edb8d5fbf2f88"
    @@ <<"L","i","g","a"," ","j","o","r","n","a","d","a"," ","8","h","t","t","p","s",":","/","/","v",".","e","s","/","2","6">>
       :> "a3acdedebef2e312b6761df4fa250f48"
    @@ <<"L","i","g","a"," ","j","o","r","n","a","d","a"," ","9","h","t","t","p","s",":","/","/","v",".","e","s","/","2","7">>
       :> "41cf38ece0cb29aad29f658e5b2fc99d"
    @@ <<"V","a","l","e","n","c","i","a"," ","e","s","t","r","e","n","a"," ","t","r","a","n","v","i","a","h","t","t","p","s",":","/","/","v",".","e","s","/","2","8">>
       :> "a8e89f30dac7e0e8075509068b6e07f6"

----------------------------------------------------------------------------
\* NewsConfig.CITIES

CityKeys == <<"alicante", "valencia", "barcelona">>

CityName ==
    [alicante |-> "Alikante", valencia |-> "Valensiya", barcelona |-> "Barselona"]

ChannelId ==
    [alicante |-> "@ALCTODAY", valencia |-> "@your_valencia_channel",
     barcelona |-> "@your_barcelona_channel"]

Sources ==
    [alicante |-> <<"https://www.informacion.es/rss/alicante.xml", "https://alicanteplaza.es/feed",
                    "https://www.alicantehoy.es/feed">>,
     valencia |-> <<"https://www.lasprovincias.es/rss/valencia.xml", "https://valenciaplaza.com/feed">>,
     barcelona |-> <<"https://www.lavanguardia.com/rss/barcelona.xml", "https://beteve.cat/feed/">>]

Keywords ==
    [alicante |-> << <<"a","l","i","c","a","n","t","e">>,
                    <<"a","l","a","c","a","n","t">>,
                    <<"c","o","s","t","a"," ","b","l","a","n","c","a">> >>,
     valencia |-> << <<"v","a","l","e","n","c","i","a">>,
                    <<"v","a","l","e_grave","n","c","i","a">>,
                    <<"c","o","m","u","n","i","t","a","t"," ","v","a","l","e","n","c","i","a","n","a">> >>,
     barcelona |-> << <<"b","a","r","c","e","l","o","n","a">>,
                     <<"c","a","t","a","l","u","n_tilde","a">>,
                     <<"c","a","t","a","l","u","n","y","a">> >>]

\* NewsFilter.SPAM_KEYWORDS
SPAM_KEYWORDS ==
    << <<"c","l","a","s","i","f","i","c","a","d","o","s">>,
       <<"a","n","u","n","c","i","o">>,
       <<"p","u","b","l","i","c","i","d","a","d">>,
       <<"s","o","r","t","e","o">>,
       <<"o","f","e","r","t","a"," ","l","a","b","o","r","a","l">>,
       <<"s","e"," ","b","u","s","c","a">>,
       <<"s","e"," ","a","l","q","u","i","l","a">>,
       <<"s","e"," ","v","e","n","d","e">> >>

\* What each feed URL serves: the entries of the feed, newest first.
FeedEntries ==
    [u \in {"https://www.informacion.es/rss/alicante.xml"} |-> <<1, 3, 4, 5>>]
    @@ [u \in {"https://alicanteplaza.es/feed"} |-> <<2, 6, 7>>]
    @@ [u \in {"https://www.alicantehoy.es/feed"} |-> <<8, 9, 10>>]
    @@ [u \in {"https://www.lasprovincias.es/rss/valencia.xml"} |-> <<10, 11>>]
    @@ [u \in {"https://valenciaplaza.com/feed"} |->
           <<13, 19, 20, 21, 22, 23, 24, 25, 26, 27, 28>>]
    @@ [u \in {"https://www.lavanguardia.com/rss/barcelona.xml"} |->
           <<14, 15, 16, 17, 18, 12>>]
    @@ [u \in {"https://beteve.cat/feed/"} |-> <<12>>]

----------------------------------------------------------------------------
\* NewsParser

\* parse_rss(url): the first 10 entries of the feed, or [] when the fetch or
\* the parse fails (feed_ok = FALSE).
parse_rss(url, feed_ok) ==
    IF feed_ok THEN Prefix(FeedEntries[url], 10) ELSE <<>>

\* fetch_all_news(sources): the per-source results, concatenated in source
\* order. feed_ok[k] tells whether source k answered.
RECURSIVE fetch_from(_, _, _)
fetch_from(sources, feed_ok, k) ==
    IF k > Len(sources) THEN <<>>
    ELSE parse_rss(sources[k], feed_ok[k]) \o fetch_from(sources, feed_ok, k + 1)

\* Mutant of fetch_all_news: one failing source empties the whole result.
fetch_all_news_stop_at_failure(sources, feed_ok) ==
    IF \E k \in 1..Len(sources) : ~feed_ok[k]
    THEN <<>>
    ELSE fetch_from(sources, feed_ok, 1)

fetch_all_news(sources, feed_ok) == fetch_from(sources, feed_ok, 1)

-----------------------------------------------------------------------------
\* NewsParser._extract_image and _fetch_image_from_article, on entries as
\* feedparser gives them. A URL is a text; the empty text stands for a URL
\* that is absent (Python's None or ''), which the code tests alike.

\* s.startswith(prefix)
StartsWith(s, prefix) ==
    /\ Len(s) >= Len(prefix)
    /\ \A j \in 1..Len(prefix) : s[j] = prefix[j]

Digits == <<"0", "1", "2", "3", "4", "5", "6", "7", "8", "9">>

\* s.isdigit()
IsDigit(s) ==
    /\ s # <<>>
    /\ \A k \in 1..Len(s) : \E d \in 1..10 : Digits[d] = s[k]

\* int(s) for a text of digits.
DigitValue(c) == (CHOOSE d \in 1..10 : Digits[d] = c) - 1

IntOf(s) ==
    LET value[k \in 0..Len(s)] ==
            IF k = 0 THEN 0 ELSE 10 * value[k - 1] + DigitValue(s[k])
    IN  value[Len(s)]

\* The suffixes by which a URL counts as an image.
ImageSuffixes == {<<".", "j", "p", "g">>, <<".", "j", "p", "e", "g">>, <<".", "p", "n", "g">>, <<".", "w", "e", "b", "p">>}

\* 'image' in type or url.lower().endswith(('.jpg', '.jpeg', '.png', '.webp'))
looks_like_image(type, url) ==
    \/ Contains(type, <<"i", "m", "a", "g", "e">>)
    \/ \E suffix \in ImageSuffixes : EndsWith(Lower(url), suffix)

\* f"{parsed.scheme}://{parsed.netloc}" for urlparse(feed_url): the URL up to
\* the end of its host.
UrlBase(feed_url) ==
    LET s == feed_url
        starts == {k \in 1..(Len(s) - 2) : SubSeq(s, k, k + 2) = <<":", "/", "/">>}
        p == Min(starts)
        ends == {k \in (p + 3)..Len(s) : s[k] \in {"/", "?", "#"}}
    IN  IF starts = {} THEN <<":", "/", "/">>
        ELSE IF ends = {} THEN s
        ELSE SubSeq(s, 1, Min(ends) - 1)

\* What a strategy gives: a URL (the empty text when it found none), or an
\* exception.
Found(url) == [raised |-> FALSE, url |-> url]

Raised == [raised |-> TRUE, url |-> <<>>]

\* The first element of a list that has a property, as a list of at most one.
First(list, Test(_)) ==
    LET hits == {k \in 1..Len(list) : Test(list[k])}
    IN  IF hits = {} THEN <<>> ELSE <<list[Min(hits)]>>

\* Method 1: the first media:content element that looks like an image and has
\* a URL.
media_content_image(entry) ==
    LET hit == First(entry.media_content,
                     LAMBDA media : looks_like_image(media.type, media.url)
                                    /\ media.url # <<>>)
    IN  IF hit = <<>> THEN Found(<<>>) ELSE Found(hit[1].url)

\* Method 2: the URL of the first media:thumbnail element.
media_thumbnail_image(entry) ==
    IF entry.media_thumbnail = <<>> THEN Found(<<>>)
    ELSE Found(entry.media_thumbnail[1].url)

\* Method 3: the first enclosure that looks like an image and has a URL.
enclosure_image(entry) ==
    LET hit == First(entry.enclosures,
                     LAMBDA enclosure :
                         looks_like_image(enclosure.type, enclosure.href)
                         /\ enclosure.href # <<>>)
    IN  IF hit = <<>> THEN Found(<<>>) ELSE Found(hit[1].href)

\* BeautifulSoup(html, 'html.parser') is modelled by its outcome: the markup
\* is rejected (an exception), or the document's img elements in order.
\* Method 4: the first img of the description, by its first attribute among
\* src, data-src, data-lazy-src that has a value, made absolute.
summary_image(entry, feed_url) ==
    IF ~entry.summary.present THEN Found(<<>>)
    ELSE IF entry.summary.rejected THEN Raised
    ELSE IF entry.summary.imgs = <<>> THEN Found(<<>>)
    ELSE LET img == entry.summary.imgs[1]
             url == IF img.src # <<>> THEN img.src
                    ELSE IF img.data_src # <<>> THEN img.data_src
                    ELSE img.data_lazy_src
         IN  IF url = <<>> THEN Found(<<>>)
             ELSE IF StartsWith(url, <<"/", "/">>) THEN Found(<<"h", "t", "t", "p", "s", ":">> \o url)
             ELSE IF StartsWith(url, <<"/">>) THEN Found(UrlBase(feed_url) \o url)
             ELSE Found(url)

\* Method 5 on the content:encoded items from index k on: the src of the
\* first img of the first item whose first img has one.
RECURSIVE content_image_from(_, _)
content_image_from(content, k) ==
    IF k > Len(content) THEN Found(<<>>)
    ELSE IF content[k].rejected THEN Raised
    ELSE IF content[k].imgs # <<>> /\ content[k].imgs[1].src # <<>>
    THEN LET url == content[k].imgs[1].src
         IN  IF StartsWith(url, <<"/", "/">>) THEN Found(<<"h", "t", "t", "p", "s", ":">> \o url)
             ELSE Found(url)
    ELSE content_image_from(content, k + 1)

content_image(entry) == content_image_from(entry.content, 1)

\* The names an article image must not carry.
NotArticleImages == {<<"l", "o", "g", "o">>, <<"i", "c", "o", "n">>, <<"a", "v", "a", "t", "a", "r">>, <<"s", "p", "r", "i", "t", "e">>}

\* _fetch_image_from_article(article_url), on what the GET of the link
\* answers: the Open Graph image, else the Twitter Card image, else the
\* first img with a src free of the names above and a width of digits of at
\* least 300; None when the GET or the parse raises.
fetch_image_from_article(article) ==
    IF article.get_raises \/ article.rejected THEN <<>>
    ELSE IF article.og_image # <<>> THEN article.og_image
    ELSE IF article.twitter_image # <<>> THEN article.twitter_image
    ELSE LET hit == First(article.imgs,
                          LAMBDA img :
                              /\ img.src # <<>>
                              /\ \A name \in NotArticleImages :
                                    ~Contains(Lower(img.src), name)
                              /\ IsDigit(img.width)
                              /\ IntOf(img.width) >= 300)
         IN  IF hit = <<>> THEN <<>> ELSE hit[1].src

\* What _extract_image does: the image URL (the empty text for None) or an
\* exception, and whether the article was fetched.
Extracted(result, fetched) ==
    [raised |-> result.raised, url |-> result.url, fetched |-> fetched]

\* Mutant of _extract_image: the thumbnail is looked at before media:content.
extract_image_thumbnail_first(entry, feed_url) ==
    IF media_thumbnail_image(entry).url # <<>>
    THEN Extracted(media_thumbnail_image(entry), FALSE)
    ELSE IF media_content_image(entry).url # <<>>
    THEN Extracted(media_content_image(entry), FALSE)
    ELSE IF enclosure_image(entry).url # <<>>
    THEN Extracted(enclosure_image(entry), FALSE)
    ELSE IF summary_image(entry, feed_url) # Found(<<>>)
    THEN Extracted(summary_image(entry, feed_url), FALSE)
    ELSE IF content_image(entry) # Found(<<>>)
    THEN Extracted(content_image(entry), FALSE)
    ELSE Extracted(Found(fetch_image_from_article(entry.article)), TRUE)

\* _extract_image(entry, feed_url): methods 1 to 5 in turn, each returning as
\* soon as it has a URL, then the article of the entry's link (line 156).
\* Methods 4 and 5 run outside any try.
extract_image(entry, feed_url) ==
    IF media_content_image(entry).url # <<>>
    THEN Extracted(media_content_image(entry), FALSE)
    ELSE IF media_thumbnail_image(entry).url # <<>>
    THEN Extracted(media_thumbnail_image(entry), FALSE)
    ELSE IF enclosure_image(entry).url # <<>>
    THEN Extracted(enclosure_image(entry), FALSE)
    ELSE IF summary_image(entry, feed_url) # Found(<<>>)
    THEN Extracted(summary_image(entry, feed_url), FALSE)
    ELSE IF content_image(entry) # Found(<<>>)
    THEN Extracted(content_image(entry), FALSE)
    ELSE Extracted(Found(fetch_image_from_article(entry.article)), TRUE)

\* The loop of parse_rss over the entries feedparser gave (at most 10): one
\* news item per entry (its image_url, and whether the article was fetched
\* for it), or [] for the whole feed when anything in the loop
\* raised, which the one try of parse_rss catches.
ParseFailed == [status |-> "failed", items |-> <<>>]

Parsed(items) == [status |-> "ok", items |-> items]

parse_rss_entries(entries, feed_url) ==
    LET first == Prefix(entries, 10)
    IN  IF \E k \in 1..Len(first) : extract_image(first[k], feed_url).raised
        THEN ParseFailed
        ELSE Parsed([k \in 1..Len(first) |->
                        [image_url |-> extract_image(first[k], feed_url).url,
                         fetched |-> extract_image(first[k], feed_url).fetched]])

\* The entries of the parser study: every combination of what the six
\* methods of _extract_image can meet in an entry.
NoImg == [src |-> <<>>, data_src |-> <<>>, data_lazy_src |-> <<>>]

Img(src) == [NoImg EXCEPT !.src = src]

Document(imgs) == [rejected |-> FALSE, imgs |-> imgs]

RejectedDocument == [rejected |-> TRUE, imgs |-> <<>>]

MediaContents ==
    {<<>>,
     <<[type |-> <<"i", "m", "a", "g", "e", "/", "j", "p", "e", "g">>, url |-> <<"h", "t", "t", "p", ":", "/", "/", "m", ".", "e", "s", "/", "a">>]>>,
     <<[type |-> <<"v", "i", "d", "e", "o", "/", "m", "p", "4">>, url |-> <<"h", "t", "t", "p", ":", "/", "/", "m", ".", "e", "s", "/", "v", ".", "m", "p", "4">>]>>,
     <<[type |-> <<>>, url |-> <<"h", "t", "t", "p", ":", "/", "/", "m", ".", "e", "s", "/", "B", ".", "P", "N", "G">>]>>,
     <<[type |-> <<"i", "m", "a", "g", "e", "/", "p", "n", "g">>, url |-> <<>>],
       [type |-> <<>>, url |-> <<"h", "t", "t", "p", ":", "/", "/", "m", ".", "e", "s", "/", "c", ".", "w", "e", "b", "p">>]>>}

MediaThumbnails ==
    {<<>>,
     <<[url |-> <<"h", "t", "t", "p", ":", "/", "/", "t", ".", "e", "s", "/", "t">>]>>,
     <<[url |-> <<>>]>>}

Enclosures ==
    {<<>>,
     <<[type |-> <<"a", "u", "d", "i", "o", "/", "m", "p", "e", "g">>, href |-> <<"h", "t", "t", "p", ":", "/", "/", "e", ".", "e", "s", "/", "p", ".", "m", "p", "3">>]>>,
     <<[type |-> <<"i", "m", "a", "g", "e", "/", "g", "i", "f">>, href |-> <<"h", "t", "t", "p", ":", "/", "/", "e", ".", "e", "s", "/", "e">>]>>}

Summaries ==
    {[present |-> FALSE, rejected |-> FALSE, imgs |-> <<>>],
     [present |-> TRUE, rejected |-> FALSE, imgs |-> <<>>],
     [present |-> TRUE, rejected |-> TRUE, imgs |-> <<>>],
     [present |-> TRUE, rejected |-> FALSE, imgs |-> <<Img(<<"/", "s", "/", "1", ".", "j", "p", "g">>)>>],
     [present |-> TRUE, rejected |-> FALSE,
      imgs |-> <<[NoImg EXCEPT !.data_src = <<"/", "/", "c", "d", "n", ".", "e", "s", "/", "2", ".", "j", "p", "g">>]>>],
     [present |-> TRUE, rejected |-> FALSE,
      imgs |-> <<NoImg, Img(<<"h", "t", "t", "p", ":", "/", "/", "s", ".", "e", "s", "/", "s", "e", "c", "o", "n", "d", ".", "j", "p", "g">>)>>]}

Contents ==
    {<<>>,
     <<Document(<<>>), Document(<<Img(<<"/", "/", "c", ".", "e", "s", "/", "3", ".", "j", "p", "g">>)>>)>>,
     <<RejectedDocument>>,
     <<Document(<<Img(<<"/", "r", "e", "l", ".", "j", "p", "g">>)>>)>>}

NoArticle ==
    [get_raises |-> FALSE, rejected |-> FALSE, og_image |-> <<>>,
     twitter_image |-> <<>>, imgs |-> <<>>]

Articles ==
    {NoArticle,
     [NoArticle EXCEPT !.get_raises = TRUE],
     [NoArticle EXCEPT !.rejected = TRUE],
     [NoArticle EXCEPT !.og_image = <<"h", "t", "t", "p", ":", "/", "/", "a", ".", "e", "s", "/", "o", "g", ".", "j", "p", "g">>,
                       !.twitter_image = <<"h", "t", "t", "p", ":", "/", "/", "a", ".", "e", "s", "/", "t", "w", ".", "j", "p", "g">>],
     [NoArticle EXCEPT !.twitter_image = <<"h", "t", "t", "p", ":", "/", "/", "a", ".", "e", "s", "/", "t", "w", ".", "j", "p", "g">>,
                       !.imgs = <<[src |-> <<"h", "t", "t", "p", ":", "/", "/", "a", ".", "e", "s", "/", "w", ".", "j", "p", "g">>, width |-> <<"8", "0", "0">>]>>],
     [NoArticle EXCEPT !.imgs = <<[src |-> <<"h", "t", "t", "p", ":", "/", "/", "a", ".", "e", "s", "/", "L", "o", "g", "o", ".", "p", "n", "g">>, width |-> <<"6", "0", "0">>],
                                  [src |-> <<"h", "t", "t", "p", ":", "/", "/", "a", ".", "e", "s", "/", "s", "m", "a", "l", "l", ".", "j", "p", "g">>, width |-> <<"1", "2", "0">>],
                                  [src |-> <<"h", "t", "t", "p", ":", "/", "/", "a", ".", "e", "s", "/", "b", "i", "g", ".", "j", "p", "g">>, width |-> <<"6", "4", "0">>]>>],
     [NoArticle EXCEPT !.imgs = <<[src |-> <<"h", "t", "t", "p", ":", "/", "/", "a", ".", "e", "s", "/", "x", ".", "j", "p", "g">>, width |-> <<"3", "0", "0", "p", "x">>],
                                  [src |-> <<"h", "t", "t", "p", ":", "/", "/", "a", ".", "e", "s", "/", "y", ".", "j", "p", "g">>, width |-> <<"0">>]>>]}

Entries ==
    [media_content : MediaContents, media_thumbnail : MediaThumbnails,
     enclosures : Enclosures, summary : Summaries, content : Contents,
     article : Articles]

\* An entry with nothing in it for methods 1 to 5.
BareEntry(article) ==
    [media_content |-> <<>>, media_thumbnail |-> <<>>, enclosures |-> <<>>,
     summary |-> [present |-> TRUE, rejected |-> FALSE, imgs |-> <<>>],
     content |-> <<>>, article |-> article]

\* The entries the two-entry feeds are made of.
PairEntries ==
    {BareEntry(a) : a \in Articles} \cup
    {[BareEntry(NoArticle) EXCEPT !.summary.rejected = TRUE],
     [BareEntry(NoArticle) EXCEPT !.content = <<RejectedDocument>>],
     [BareEntry(NoArticle) EXCEPT
         !.media_content = <<[type |-> <<"i", "m", "a", "g", "e", "/", "j", "p", "e", "g">>, url |-> <<"h", "t", "t", "p", ":", "/", "/", "m", ".", "e", "s", "/", "a">>]>>,
         !.summary.rejected = TRUE]}

\* The feeds of the parser study: one entry of any kind, or two entries.
ParserFeeds ==
    {<<entry>> : entry \in Entries} \cup
    {<<first, second>> : first \in PairEntries, second \in PairEntries}

\* The URL of the feed the entries come from.
ParserFeedUrl == <<"h", "t", "t", "p", "s", ":", "/", "/", "f", ".", "e", "s", "/", "r", "s", "s", "/", "x", ".", "x", "m", "l">>

----------------------------------------------------------------------------
\* NewsFilter

\* Mutant of get_news_hash: an entry that has an image is told by its image.
get_news_hash_by_image(news) ==
    IF ImageUrl[news] = None THEN Md5Table[Title[news] \o Link[news]]
    ELSE ImageUrl[news]

\* get_news_hash(news): md5 of the title immediately followed by the link.
get_news_hash(news) == Md5Table[Title[news] \o Link[news]]

\* Mutant of is_duplicate: nothing is ever a duplicate.
is_duplicate_never(news, hashes) == FALSE

\* is_duplicate(news), on the set self.published_hashes.
is_duplicate(news, hashes) == get_news_hash(news) \in hashes

\* The text both is_spam and filter_news search: title, one space,
\* description, lowercased.
SearchText(news) == Lower(Title[news] \o <<" ">> \o Description[news])

\* is_spam(news)
is_spam(news) ==
    \E k \in 1..Len(SPAM_KEYWORDS) : Contains(SearchText(news), SPAM_KEYWORDS[k])

\* any(keyword.lower() in text for keyword in keywords)
has_keyword(news, keywords) ==
    \E k \in 1..Len(keywords) : Contains(SearchText(news), Lower(keywords[k]))

\* The two verdicts above for every entry of the model, computed once.
SpamVerdict == [news \in Items |-> is_spam(news)]

KeywordVerdict ==
    [city \in {CityKeys[k] : k \in 1..Len(CityKeys)} |->
        [news \in Items |-> has_keyword(news, Keywords[city])]]

\* Mutant of filter_loop: the spam check comes before the duplicate check.
RECURSIVE filter_loop_spam_first(_, _, _, _)
filter_loop_spam_first(news_list, city, hashes, acc) ==
    IF news_list = <<>> THEN acc
    ELSE LET news == Head(news_list)
             rest == Tail(news_list)
         IN  IF SpamVerdict[news]
             THEN filter_loop_spam_first(rest, city, hashes,
                                         [acc EXCEPT !.spam_log = Append(@, news)])
             ELSE IF get_news_hash(news) \in hashes
             THEN filter_loop_spam_first(rest, city, hashes, acc)
             ELSE IF KeywordVerdict[city][news]
             THEN filter_loop_spam_first(rest, city, hashes,
                                         [acc EXCEPT !.filtered = Append(@, news)])
             ELSE filter_loop_spam_first(rest, city, hashes, acc)

\* The loop of filter_news over news_list for the city's keywords: acc.filtered
\* is the list built so far, acc.spam_log the entries logged as spam so far.
RECURSIVE filter_loop(_, _, _, _)
filter_loop(news_list, city, hashes, acc) ==
    IF news_list = <<>> THEN acc
    ELSE LET news == Head(news_list)
             rest == Tail(news_list)
         IN  IF is_duplicate(news, hashes)
             THEN filter_loop(rest, city, hashes, acc)
             ELSE IF SpamVerdict[news]
             THEN filter_loop(rest, city, hashes,
                              [acc EXCEPT !.spam_log = Append(@, news)])
             ELSE IF KeywordVerdict[city][news]
             THEN filter_loop(rest, city, hashes,
                              [acc EXCEPT !.filtered = Append(@, news)])
             ELSE filter_loop(rest, city, hashes, acc)

\* filter_news(news_list, keywords), keywords being those of `city`.
filter_news(news_list, city, hashes) ==
    filter_loop(news_list, city, hashes, [filtered |-> <<>>, spam_log |-> <<>>])

\* The state file published_news.json: it does not exist, or it does not
\* parse as the JSON object _load_published expects, or it holds a list of
\* hashes.
Absent == [status |-> "absent", hashes |-> {}]

Corrupt == [status |-> "corrupt", hashes |-> {}]

Holding(hashes) == [status |-> "ok", hashes |-> hashes]

\* _load_published(): the set of the file's hashes; the empty set when the
\* file is absent or reading it raises.
load_published(file) == IF file.status = "ok" THEN file.hashes ELSE {}

\* What _save_published leaves in the state file: the whole set when the
\* write completes; the old file when open() fails; a truncated file when
\* the write stops after open() truncated it.
SaveOutcomes == {"written", "open_failed", "truncated"}

save_published(file, hashes, outcome) ==
    CASE outcome = "written" -> Holding(hashes)
      [] outcome = "open_failed" -> file
      [] outcome = "truncated" -> Corrupt

\* Mutant of mark_as_published: the set is replaced, not added to.
mark_as_published_overwrite(news, hashes) == {get_news_hash(news)}

\* mark_as_published(news): the new published_hashes.
mark_as_published(news, hashes) == hashes \cup {get_news_hash(news)}

----------------------------------------------------------------------------
\* FreeNewsProcessor

\* What the translation collaborator answers for the titles and the cleaned
\* descriptions of the entries (transliterated).
RuDictionary ==
       (* 'Fiesta en Alicante' -> 'Prazdnik v Alikante' *)
    <<"F","i","e","s","t","a"," ","e","n"," ","A","l","i","c","a","n","t","e">>
       :> <<"P","r","a","z","d","n","i","k"," ","v"," ","A","l","i","k","a","n","t","e">>
       (* 'Gran evento. Habra musica. No te lo pierdas!' -> 'Bolshoe sobytie. Budet muzyka. Ne propustite!' *)
    @@ <<"G","r","a","n"," ","e","v","e","n","t","o","."," ","H","a","b","r","a"," ","m","u","s","i","c","a","."," ","N","o"," ","t","e"," ","l","o"," ","p","i","e","r","d","a","s","!">>
       :> <<"B","o","l","s","h","o","e"," ","s","o","b","y","t","i","e","."," ","B","u","d","e","t"," ","m","u","z","y","k","a","."," ","N","e"," ","p","r","o","p","u","s","t","i","t","e","!">>
       (* 'Gran evento en ALICANTE. Musica y teatro.' -> 'Bolshoe sobytie v ALIKANTE. Muzyka i teatr.' *)
    @@ <<"G","r","a","n"," ","e","v","e","n","t","o"," ","e","n"," ","A","L","I","C","A","N","T","E","."," ","M","u","s","i","c","a"," ","y"," ","t","e","a","t","r","o",".">>
       :> <<"B","o","l","s","h","o","e"," ","s","o","b","y","t","i","e"," ","v"," ","A","L","I","K","A","N","T","E","."," ","M","u","z","y","k","a"," ","i"," ","t","e","a","t","r",".">>
       (* 'Alicante hoy' -> 'Alikante segodnya' *)
    @@ <<"A","l","i","c","a","n","t","e"," ","h","o","y">>
       :> <<"A","l","i","k","a","n","t","e"," ","s","e","g","o","d","n","y","a">>
       (* 'Hoy si. No. Ya! Pero luego habra mas.' -> 'Segodnya da. Net. Uzhe! No potom budet bolshe.' *)
    @@ <<"H","o","y"," ","s","i","."," ","N","o","."," ","Y","a","!"," ","P","e","r","o"," ","l","u","e","g","o"," ","h","a","b","r","a"," ","m","a","s",".">>
       :> <<"S","e","g","o","d","n","y","a"," ","d","a","."," ","N","e","t","."," ","U","z","h","e","!"," ","N","o"," ","p","o","t","o","m"," ","b","u","d","e","t"," ","b","o","l","s","h","e",".">>
       (* '' -> '' *)
    @@ <<>>
       :> <<>>
       (* 'El tiempo en Alacant sera bueno' -> 'Pogoda horoshaya' *)
    @@ <<"E","l"," ","t","i","e","m","p","o"," ","e","n"," ","A","l","a","c","a","n","t"," ","s","e","r","a"," ","b","u","e","n","o">>
       :> <<"P","o","g","o","d","a"," ","h","o","r","o","s","h","a","y","a">>
       (* 'Verano en la Costa' -> 'Leto na poberezhe' *)
    @@ <<"V","e","r","a","n","o"," ","e","n"," ","l","a"," ","C","o","s","t","a">>
       :> <<"L","e","t","o"," ","n","a"," ","p","o","b","e","r","e","z","h","e">>
       (* 'Blanca y radiante luce la playa.' -> 'Belyj i siyayushchij plyazh.' *)
    @@ <<"B","l","a","n","c","a"," ","y"," ","r","a","d","i","a","n","t","e"," ","l","u","c","e"," ","l","a"," ","p","l","a","y","a",".">>
       :> <<"B","e","l","y","j"," ","i"," ","s","i","y","a","y","u","s","h","c","h","i","j"," ","p","l","y","a","z","h",".">>
       (* 'Alicante 1' -> 'Alikante 1' *)
    @@ <<"A","l","i","c","a","n","t","e"," ","1">>
       :> <<"A","l","i","k","a","n","t","e"," ","1">>
       (* 'Primera nota sobre la ciudad.' -> 'Pervaya zametka o gorode.' *)
    @@ <<"P","r","i","m","e","r","a"," ","n","o","t","a"," ","s","o","b","r","e"," ","l","a"," ","c","i","u","d","a","d",".">>
       :> <<"P","e","r","v","a","y","a"," ","z","a","m","e","t","k","a"," ","o"," ","g","o","r","o","d","e",".">>
       (* 'Tren Alicante Valencia' -> 'Poezd Alikante Valensiya' *)
    @@ <<"T","r","e","n"," ","A","l","i","c","a","n","t","e"," ","V","a","l","e","n","c","i","a">>
       :> <<"P","o","e","z","d"," ","A","l","i","k","a","n","t","e"," ","V","a","l","e","n","s","i","y","a">>
       (* 'Nuevo tren rapido entre ciudades.' -> 'Novyj skoryj poezd mezhdu gorodami.' *)
    @@ <<"N","u","e","v","o"," ","t","r","e","n"," ","r","a","p","i","d","o"," ","e","n","t","r","e"," ","c","i","u","d","a","d","e","s",".">>
       :> <<"N","o","v","y","j"," ","s","k","o","r","y","j"," ","p","o","e","z","d"," ","m","e","z","h","d","u"," ","g","o","r","o","d","a","m","i",".">>
       (* 'Fallas' -> 'Falyas' *)
    @@ <<"F","a","l","l","a","s">>
       :> <<"F","a","l","y","a","s">>
       (* 'La Comunitat Valenciana celebra las fallas.' -> 'Valensijskoe soobshchestvo prazdnuet falyas.' *)
    @@ <<"L","a"," ","C","o","m","u","n","i","t","a","t"," ","V","a","l","e","n","c","i","a","n","a"," ","c","e","l","e","b","r","a"," ","l","a","s"," ","f","a","l","l","a","s",".">>
       :> <<"V","a","l","e","n","s","i","j","s","k","o","e"," ","s","o","o","b","s","h","c","h","e","s","t","v","o"," ","p","r","a","z","d","n","u","e","t"," ","f","a","l","y","a","s",".">>
       (* 'Barcelona abre museo' -> 'Barselona otkryvaet muzej' *)
    @@ <<"B","a","r","c","e","l","o","n","a"," ","a","b","r","e"," ","m","u","s","e","o">>
       :> <<"B","a","r","s","e","l","o","n","a"," ","o","t","k","r","y","v","a","e","t"," ","m","u","z","e","j">>
       (* 'El museo abre hoy. Entrada libre.' -> 'Muzej otkryvaetsya segodnya. Vhod svobodnyj.' *)
    @@ <<"E","l"," ","m","u","s","e","o"," ","a","b","r","e"," ","h","o","y","."," ","E","n","t","r","a","d","a"," ","l","i","b","r","e",".">>
       :> <<"M","u","z","e","j"," ","o","t","k","r","y","v","a","e","t","s","y","a"," ","s","e","g","o","d","n","y","a","."," ","V","h","o","d"," ","s","v","o","b","o","d","n","y","j",".">>
       (* 'Galeria.' -> 'Galereya.' *)
    @@ <<"G","a","l","e","r","i","a",".">>
       :> <<"G","a","l","e","r","e","y","a",".">>
       (* 'Valencia estrena tranvia' -> 'Valensiya zapuskaet tramvaj' *)
    @@ <<"V","a","l","e","n","c","i","a"," ","e","s","t","r","e","n","a"," ","t","r","a","n","v","i","a">>
       :> <<"V","a","l","e","n","s","i","y","a"," ","z","a","p","u","s","k","a","e","t"," ","t","r","a","m","v","a","j">>
       (* 'La nueva linea de tranvia abre el lunes.' -> 'Novaya tramvajnaya liniya otkroetsya v ponedelnik.' *)
    @@ <<"L","a"," ","n","u","e","v","a"," ","l","i","n","e","a"," ","d","e"," ","t","r","a","n","v","i","a"," ","a","b","r","e"," ","e","l"," ","l","u","n","e","s",".">>
       :> <<"N","o","v","a","y","a"," ","t","r","a","m","v","a","j","n","a","y","a"," ","l","i","n","i","y","a"," ","o","t","k","r","o","e","t","s","y","a"," ","v"," ","p","o","n","e","d","e","l","n","i","k",".">>
       (* 'Barcelona en fotos 1' -> 'Barselona v fotografiyah 1' *)
    @@ <<"B","a","r","c","e","l","o","n","a"," ","e","n"," ","f","o","t","o","s"," ","1">>
       :> <<"B","a","r","s","e","l","o","n","a"," ","v"," ","f","o","t","o","g","r","a","f","i","y","a","h"," ","1">>
       (* 'Barcelona en fotos 2' -> 'Barselona v fotografiyah 2' *)
    @@ <<"B","a","r","c","e","l","o","n","a"," ","e","n"," ","f","o","t","o","s"," ","2">>
       :> <<"B","a","r","s","e","l","o","n","a"," ","v"," ","f","o","t","o","g","r","a","f","i","y","a","h"," ","2">>
       (* 'Barcelona en fotos 3' -> 'Barselona v fotografiyah 3' *)
    @@ <<"B","a","r","c","e","l","o","n","a"," ","e","n"," ","f","o","t","o","s"," ","3">>
       :> <<"B","a","r","s","e","l","o","n","a"," ","v"," ","f","o","t","o","g","r","a","f","i","y","a","h"," ","3">>
       (* 'Barcelona en fotos 4' -> 'Barselona v fotografiyah 4' *)
    @@ <<"B","a","r","c","e","l","o","n","a"," ","e","n"," ","f","o","t","o","s"," ","4">>
       :> <<"B","a","r","s","e","l","o","n","a"," ","v"," ","f","o","t","o","g","r","a","f","i","y","a","h"," ","4">>
       (* 'Barcelona en fotos 5' -> 'Barselona v fotografiyah 5' *)
    @@ <<"B","a","r","c","e","l","o","n","a"," ","e","n"," ","f","o","t","o","s"," ","5">>
       :> <<"B","a","r","s","e","l","o","n","a"," ","v"," ","f","o","t","o","g","r","a","f","i","y","a","h"," ","5">>

\* The translation collaborator's answer for a text.
GoogleTranslate(text) ==
    IF text \in DOMAIN RuDictionary THEN RuDictionary[text]
    ELSE <<"[", "r", "u", "]">> \o text

\* Longest text handed to the translator.
TranslateLimit == 5000

\* Mutant of translate_text: nothing comes back when the translator raises.
translate_text_fail_empty(text, ok) ==
    IF ok THEN GoogleTranslate(text) ELSE <<>>

\* translate_text(text); ok = FALSE when the translator raises.
translate_text(text, ok) ==
    LET cut == IF Len(text) > TranslateLimit THEN Prefix(text, TranslateLimit)
               ELSE text
    IN  IF ok THEN GoogleTranslate(cut) ELSE cut

\* Whether character k of a markup string belongs to a tag: a "<" at or
\* before it is not yet closed by a ">".
in_tag(s, k) ==
    \E j \in 1..k : s[j] = "<" /\ \A m \in j..(k - 1) : s[m] # ">"

\* The text nodes of a markup string: the runs of characters outside tags.
TagMark == "<tag>"

text_nodes(s) ==
    Split([k \in 1..Len(s) |-> IF in_tag(s, k) THEN TagMark ELSE s[k]], TagMark)

\* clean_html(text): soup.get_text(separator=' ', strip=True)
clean_html(text) ==
    Join(<<" ">>, NonEmpty(StripAll(text_nodes(text))))

\* shorten_text(text, max_sentences)
shorten_text(text, max_sentences) ==
    LET sentences == NonEmpty(StripAll(
                         Split(ReplaceChar(ReplaceChar(text, "!", "."), "?", "."),
                               ".")))
        short_text == Join(<<".", " ">>, Prefix(sentences, max_sentences))
    IN  IF short_text # <<>> /\ ~EndsWith(short_text, <<".">>)
        THEN short_text \o <<".">>
        ELSE short_text

\* generate_hashtags(city_name)
generate_hashtags(city_name) ==
    CASE city_name = "Alikante" -> << <<"#KostaBlanka">>, <<"#Alikante">> >>
      [] city_name = "Valensiya" -> << <<"#Valensiya">>, <<"#KomunidadValensiana">> >>
      [] city_name = "Barselona" -> << <<"#Barselona">>, <<"#Kataloniya">> >>
      [] OTHER -> << <<"#", city_name>>, <<"#Ispaniya">> >>

\* Shortest description process_news accepts.
MinDescLen == 20

\* The short description process_news computes for an entry, for every entry
\* of the model and both answers of the translator, computed once.
ShortDesc ==
    [news \in Items, desc_ok \in BOOLEAN |->
        shorten_text(translate_text(clean_html(Description[news]), desc_ok), 3)]

short_desc_of(news, desc_ok) == ShortDesc[news, desc_ok]

\* Mutant of process_news: the length check is on the title.
process_news_title_check(news, city_name, title_ok, desc_ok) ==
    LET translated_title == translate_text(Title[news], title_ok)
        short_desc == short_desc_of(news, desc_ok)
        hashtags == generate_hashtags(city_name)
    IN  IF Len(translated_title) < MinDescLen THEN <<>>
        ELSE <<[title |-> translated_title,
                text |-> short_desc,
                link |-> Link[news],
                image_url |-> ImageUrl[news],
                hashtags |-> hashtags,
                source |-> Source[news]]>>

\* process_news(news, city_name): <<the post>>, or <<>> for None. title_ok
\* and desc_ok tell whether the translator answered for the title and the
\* description.
process_news(news, city_name, title_ok, desc_ok) ==
    LET translated_title == translate_text(Title[news], title_ok)
        short_desc == short_desc_of(news, desc_ok)
        hashtags == generate_hashtags(city_name)
    IN  IF Len(short_desc) < MinDescLen THEN <<>>
        ELSE <<[title |-> translated_title,
              text |-> short_desc,
              link |-> Link[news],
              image_url |-> ImageUrl[news],
              hashtags |-> hashtags,
              source |-> Source[news]]>>

----------------------------------------------------------------------------
\* TelegramPublisher

\* The text of a post, as publish_news builds it.
render(news) ==
    <<"<b>">> \o news.title \o <<"</b>", "\n", "\n">>
    \o news.text \o <<"\n", "\n">>
    \o (IF news.hashtags # <<>>
        THEN Join(<<" ">>, news.hashtags) \o <<"\n", "\n">>
        ELSE <<>>)
    \o <<"<a href='">> \o news.link \o <<"'>", "Chitat polnostyu", "</a>">>

\* Mutant of publish_news: once the photo send failed, the text-only send's
\* failure is swallowed too.
publish_news_fallback_swallowed(channel_id, news, photo_ok, text_ok) ==
    LET text == render(news)
        photo == [method |-> "send_photo", chat_id |-> channel_id,
                  photo |-> news.image_url, text |-> text, ok |-> photo_ok]
        message == [method |-> "send_message", chat_id |-> channel_id,
                    photo |-> None, text |-> text, ok |-> text_ok]
    IN  IF news.image_url # None
        THEN IF photo_ok
             THEN [sends |-> <<photo>>, result |-> TRUE]
             ELSE [sends |-> <<photo, message>>, result |-> TRUE]
        ELSE [sends |-> <<message>>, result |-> text_ok]

\* publish_news(channel_id, news): the sends it makes, in order, and what it
\* returns. photo_ok and text_ok tell whether send_photo and send_message
\* succeed when called.
publish_news(channel_id, news, photo_ok, text_ok) ==
    LET text == render(news)
        photo == [method |-> "send_photo", chat_id |-> channel_id,
                  photo |-> news.image_url, text |-> text, ok |-> photo_ok]
        message == [method |-> "send_message", chat_id |-> channel_id,
                    photo |-> None, text |-> text, ok |-> text_ok]
    IN  IF news.image_url # None
        THEN IF photo_ok
             THEN [sends |-> <<photo>>, result |-> TRUE]
             ELSE [sends |-> <<photo, message>>, result |-> text_ok]
        ELSE [sends |-> <<message>>, result |-> text_ok]

----------------------------------------------------------------------------
\* NewsBot and the process around it.

\* Most filtered items process_city_news takes per city and run.
PerRunCap == 5

\* Mutant of batch: no cap.
batch_uncapped(filtered) == filtered

\* filtered_news[:5]
batch(filtered) == Prefix(filtered, PerRunCap)

\* Mutant of after_publish: the entry is marked whatever publish_news returned.
after_publish_always_mark(success) == "mark"

\* Where process_city_news goes after publish_news returned `success`:
\* to mark_as_published, or on to the next item.
after_publish(success) == IF success THEN "mark" ELSE "process"

VARIABLES
    phase,             \* "down", "fetch", "process", "publish", "mark", "idle"
    city,              \* position in CityKeys of the city run_once is at
    published_hashes,  \* NewsFilter.published_hashes
    storage_file,      \* published_news.json: Absent, Corrupt or Holding(hashes)
    raw_news,          \* process_city_news: raw_news
    filtered_news,     \* process_city_news: filtered_news
    idx,               \* position of the loop in filtered_news[:5]
    processed_news,    \* process_city_news: processed_news (<<>> is None)
    \* History of the current process_city_news call.
    feed_answers,      \* whether each source answered the fetch (<<>> before it)
    hashes_at_filter,  \* published_hashes when filter_news ran
    spam_log,          \* entries filter_news logged as spam
    summarized,        \* entries handed to process_news, in order
    rejected,          \* entries process_news returned None for, in order
    publish_log,       \* publish_news calls: [news, success], in order
    marked,            \* entries handed to mark_as_published, in order
    last_summary,      \* the process_news call just made
    last_publish,      \* the publish_news call just made: [news, sends, result]
    \* History of the current run_once call.
    run_log,           \* the cities finished: [city, summarized, marks], in order
    failed_now,        \* <<city, entry>> for which publish_news returned False
    \* History of the deployment.
    failed_before,     \* failed_now of the run_once call before this one
    delivered,         \* hashes of the entries some publish_news call delivered
    channels,          \* <<hash, channel>> of every delivery of publish_news
    delivered_before,  \* those delivered in an earlier process lifetime
    marked_ever,       \* hashes mark_as_published has returned for
    marked_entries,    \* entries mark_as_published has returned for
    runs,              \* run_once invocations so far
    faults,            \* faults so far
    \* NewsParser.parse_rss studied on its own.
    parsed_feed,       \* the entries feedparser gave for the feed
    parsed_news        \* what parse_rss made of them

vars ==
    <<phase, city, published_hashes, storage_file, raw_news, filtered_news,
      idx, processed_news, feed_answers, hashes_at_filter, spam_log, summarized,
      rejected, publish_log, marked, last_summary, last_publish, run_log,
      failed_now, failed_before,
      delivered, channels, delivered_before, marked_ever,
      marked_entries, runs, faults, parsed_feed, parsed_news>>

\* The variables of the parser study.
parser_vars == <<parsed_feed, parsed_news>>

CityKey == CityKeys[city]

\* The faults among the answers `ok` (a function to BOOLEAN).
Failures(ok) == Cardinality({k \in DOMAIN ok : ~ok[k]})

\* n more faults happen (the model bounds their number).
Spend(n) == faults + n <= MaxFaults /\ faults' = faults + n

\* parse_rss has not been called in the parser study.
NotParsed == [status |-> "pending", items |-> <<>>]

\* The pipeline before the first start: no process, no state file.
InitPipeline ==
    /\ phase = "down"
    /\ city = 1
    /\ published_hashes = {}
    /\ storage_file = Absent
    /\ raw_news = <<>>
    /\ filtered_news = <<>>
    /\ idx = 1
    /\ processed_news = <<>>
    /\ feed_answers = <<>>
    /\ hashes_at_filter = {}
    /\ spam_log = <<>>
    /\ summarized = <<>>
    /\ rejected = <<>>
    /\ publish_log = <<>>
    /\ marked = <<>>
    /\ last_summary = <<>>
    /\ last_publish = <<>>
    /\ run_log = <<>>
    /\ failed_now = {}
    /\ failed_before = {}
    /\ delivered = {}
    /\ channels = {}
    /\ delivered_before = {}
    /\ marked_ever = {}
    /\ marked_entries = {}
    /\ runs = 0
    /\ faults = 0

\* The state before the first start; no feed is under study.
Init ==
    /\ InitPipeline
    /\ parsed_feed = <<>>
    /\ parsed_news = NotParsed

\* The locals and the call history of a process_city_news call not yet made.
ResetCall ==
    /\ raw_news' = <<>>
    /\ filtered_news' = <<>>
    /\ idx' = 1
    /\ processed_news' = <<>>
    /\ feed_answers' = <<>>
    /\ hashes_at_filter' = {}
    /\ spam_log' = <<>>
    /\ summarized' = <<>>
    /\ rejected' = <<>>
    /\ publish_log' = <<>>
    /\ marked' = <<>>
    /\ last_summary' = <<>>
    /\ last_publish' = <<>>

\* A run_once call begins: its history is empty, the failures of the call
\* before it are those of the previous run.
ResetRun ==
    /\ run_log' = <<>>
    /\ failed_before' = failed_now
    /\ failed_now' = {}

\* main() and NewsBot.__init__: NewsFilter loads the state file; run() then
\* starts the first run_once.
StartStep ==
    /\ phase = "down"
    /\ published_hashes' = load_published(storage_file)
    /\ phase' = "fetch"
    /\ city' = 1
    /\ ResetCall
    /\ ResetRun
    /\ UNCHANGED <<storage_file,
                   delivered, channels, delivered_before, marked_ever,
                   marked_entries, parser_vars>>

Start ==
    /\ runs < MaxRuns
    /\ runs' = runs + 1
    /\ StartStep
    /\ UNCHANGED faults

\* process_city_news up to the loop: fetch every source of the city, filter.
\* feed_ok[k] tells whether source k answered.
FetchStep(feed_ok) ==
    /\ phase = "fetch"
    /\ LET raw == fetch_all_news(Sources[CityKey], feed_ok)
           out == filter_news(raw, CityKey, published_hashes)
       IN  /\ raw_news' = raw
           /\ filtered_news' = out.filtered
           /\ spam_log' = out.spam_log
    /\ feed_answers' = feed_ok
    /\ hashes_at_filter' = published_hashes
    /\ idx' = 1
    /\ phase' = "process"
    /\ UNCHANGED <<city, published_hashes, storage_file, processed_news,
                   summarized, rejected, publish_log, marked, last_summary,
                   last_publish, run_log, failed_now, failed_before,
                   delivered, channels,
                   delivered_before, marked_ever, marked_entries, runs,
                   parser_vars>>

FetchAndFilter ==
    \E feed_ok \in [1..Len(Sources[CityKey]) -> BOOLEAN] :
        /\ Spend(Failures(feed_ok))
        /\ FetchStep(feed_ok)

\* One turn of the loop up to `if processed_news`: process_news on the next
\* entry of filtered_news[:5]. title_ok and desc_ok tell whether the
\* translator answered for the title and for the description.
ProcessStep(title_ok, desc_ok) ==
    /\ phase = "process"
    /\ idx <= Len(batch(filtered_news))
    /\ LET news == batch(filtered_news)[idx]
           post == process_news(news, CityName[CityKey], title_ok, desc_ok)
       IN  /\ summarized' = Append(summarized, news)
           /\ last_summary' =
                 <<[news |-> news,
                    title_ok |-> title_ok,
                    desc_ok |-> desc_ok,
                    short_desc |-> short_desc_of(news, desc_ok),
                    post |-> post]>>
           /\ processed_news' = post
           /\ rejected' = IF post = <<>> THEN Append(rejected, news) ELSE rejected
           /\ IF post = <<>>
              THEN phase' = "process" /\ idx' = idx + 1
              ELSE phase' = "publish" /\ idx' = idx
    /\ last_publish' = <<>>
    /\ UNCHANGED <<city, published_hashes, storage_file, raw_news, filtered_news,
                   feed_answers, hashes_at_filter, spam_log, publish_log, marked,
                   run_log, failed_now, failed_before, delivered, channels,
                   delivered_before, marked_ever, marked_entries, runs,
                   parser_vars>>

Process ==
    \E title_ok \in BOOLEAN, desc_ok \in BOOLEAN :
        /\ Spend(Failures(<<title_ok, desc_ok>>))
        /\ ProcessStep(title_ok, desc_ok)

\* The answers the messaging collaborator can give to the sends publish_news
\* makes for a post: send_photo is called only for a post with an image,
\* send_message only when send_photo was not called or failed.
SendAnswers(post) ==
    {ok \in [{"photo", "text"} -> BOOLEAN] :
        /\ post.image_url = None => ok["photo"]
        /\ (post.image_url # None /\ ok["photo"]) => ok["text"]}

\* publish_news on the post, and `if success`.
PublishStep(ok) ==
    /\ phase = "publish"
    /\ LET news == batch(filtered_news)[idx]
           out == publish_news(ChannelId[CityKey], processed_news[1],
                               ok["photo"], ok["text"])
       IN  /\ last_publish' =
                 <<[news |-> processed_news[1], sends |-> out.sends,
                    result |-> out.result]>>
           /\ publish_log' =
                 Append(publish_log, [news |-> news, success |-> out.result])
           /\ delivered' =
                 IF out.result THEN delivered \cup {get_news_hash(news)}
                 ELSE delivered
           /\ channels' =
                 IF out.result
                 THEN channels \cup {<<get_news_hash(news), ChannelId[CityKey]>>}
                 ELSE channels
           /\ failed_now' =
                 IF out.result THEN failed_now
                 ELSE failed_now \cup {<<city, news>>}
           /\ phase' = after_publish(out.result)
           /\ idx' = IF after_publish(out.result) = "mark" THEN idx
                     ELSE idx + 1
    /\ last_summary' = <<>>
    /\ UNCHANGED <<city, published_hashes, storage_file, raw_news, filtered_news,
                   processed_news, feed_answers, hashes_at_filter, spam_log,
                   summarized, rejected, marked, run_log, failed_before,
                   delivered_before, marked_ever, marked_entries, runs,
                   parser_vars>>

Publish ==
    /\ phase = "publish"
    /\ \E ok \in SendAnswers(processed_news[1]) :
          /\ Spend(Failures(ok))
          /\ PublishStep(ok)

\* mark_as_published on the entry (the hash joins the set, the set is saved
\* with the given outcome), then published_count += 1 and the pause.
MarkStep(outcome) ==
    /\ phase = "mark"
    /\ LET news == batch(filtered_news)[idx]
       IN  /\ published_hashes' = mark_as_published(news, published_hashes)
           /\ storage_file' =
                 save_published(storage_file, published_hashes', outcome)
           /\ marked' = Append(marked, news)
           /\ marked_ever' = marked_ever \cup {get_news_hash(news)}
           /\ marked_entries' = marked_entries \cup {news}
    /\ idx' = idx + 1
    /\ phase' = "process"
    /\ last_publish' = <<>>
    /\ UNCHANGED <<city, raw_news, filtered_news, processed_news, feed_answers,
                   hashes_at_filter, spam_log, summarized, rejected, publish_log,
                   last_summary, run_log, failed_now, failed_before,
                   delivered, channels,
                   delivered_before, runs, parser_vars>>

Mark ==
    \E outcome \in SaveOutcomes :
        /\ Spend(IF outcome = "written" THEN 0 ELSE 1)
        /\ MarkStep(outcome)

\* Mutant of EndCity: a city that marked nothing ends the run.
EndCity_stop_on_no_marks ==
    /\ phase = "process"
    /\ idx > Len(batch(filtered_news))
    /\ IF city < Len(CityKeys) /\ marked # <<>>
       THEN phase' = "fetch" /\ city' = city + 1
       ELSE phase' = "idle" /\ city' = 1
    /\ run_log' = Append(run_log, [city |-> city, summarized |-> Len(summarized),
                                   marks |-> Len(marked)])
    /\ ResetCall
    /\ UNCHANGED <<published_hashes, storage_file, failed_now, failed_before,
                   delivered, channels,
                   delivered_before, marked_ever, marked_entries,
                   runs, faults, parser_vars>>

\* Mutant of EndCity: the next city starts while the loop still has entries.
EndCity_before_loop_end ==
    /\ phase = "process"
    /\ IF city < Len(CityKeys)
       THEN phase' = "fetch" /\ city' = city + 1
       ELSE phase' = "idle" /\ city' = 1
    /\ run_log' = Append(run_log, [city |-> city, summarized |-> Len(summarized),
                                   marks |-> Len(marked)])
    /\ ResetCall
    /\ UNCHANGED <<published_hashes, storage_file, failed_now, failed_before,
                   delivered, channels,
                   delivered_before, marked_ever, marked_entries,
                   runs, faults, parser_vars>>

\* The loop is over: process_city_news returns, run_once pauses and goes to the
\* next city, or returns after the last one.
EndCity ==
    /\ phase = "process"
    /\ idx > Len(batch(filtered_news))
    /\ IF city < Len(CityKeys)
       THEN phase' = "fetch" /\ city' = city + 1
       ELSE phase' = "idle" /\ city' = 1
    /\ run_log' = Append(run_log, [city |-> city, summarized |-> Len(summarized),
                                   marks |-> Len(marked)])
    /\ ResetCall
    /\ UNCHANGED <<published_hashes, storage_file, failed_now, failed_before,
                   delivered, channels,
                   delivered_before, marked_ever, marked_entries,
                   runs, faults, parser_vars>>

\* The scheduler's interval job calls run_once: the job runs only when no
\* run_once call is under way.
RunStep ==
    /\ phase = "idle"
    /\ phase' = "fetch"
    /\ city' = 1
    /\ ResetRun
    /\ UNCHANGED <<published_hashes, storage_file, raw_news, filtered_news, idx,
                   processed_news, feed_answers, hashes_at_filter, spam_log,
                   summarized, rejected, publish_log, marked, last_summary,
                   last_publish,
                   delivered, channels, delivered_before, marked_ever,
                   marked_entries, parser_vars>>

ScheduledRun ==
    /\ runs < MaxRuns
    /\ runs' = runs + 1
    /\ RunStep
    /\ UNCHANGED faults

\* The process dies (a kill, a power loss, an unhandled stop): its memory is
\* gone, only the state file stays. published_hashes keeps the last value the
\* dead process held until the next start loads the file.
Crash ==
    /\ phase # "down"
    /\ Spend(1)
    /\ phase' = "down"
    /\ city' = 1
    /\ delivered_before' = delivered
    /\ run_log' = <<>>
    /\ ResetCall
    /\ UNCHANGED <<published_hashes, storage_file, failed_now, failed_before,
                   delivered, channels,
                   marked_ever, marked_entries, runs, parser_vars>>

Next ==
    \/ Start
    \/ FetchAndFilter
    \/ Process
    \/ Publish
    \/ Mark
    \/ EndCity
    \/ ScheduledRun
    \/ Crash

Spec == Init /\ [][Next]_vars

\* The runs of one process lifetime that nothing kills: asyncio runs every
\* step of run_once to its end, so a step that can be taken is taken.
NextRun ==
    \/ Start
    \/ FetchAndFilter
    \/ Process
    \/ Publish
    \/ Mark
    \/ EndCity
    \/ ScheduledRun

SpecRun == Init /\ [][NextRun]_vars /\ WF_vars(NextRun)

\* The deployment over any number of runs when every feed answers, every send
\* is accepted and every save is written; the translator answers or not.
StartLive == StartStep /\ UNCHANGED <<runs, faults>>

FetchLive ==
    /\ FetchStep([k \in 1..Len(Sources[CityKey]) |-> TRUE])
    /\ UNCHANGED faults

ProcessLive ==
    /\ \E title_ok \in BOOLEAN, desc_ok \in BOOLEAN : ProcessStep(title_ok, desc_ok)
    /\ UNCHANGED faults

PublishLive ==
    /\ PublishStep([s \in {"photo", "text"} |-> TRUE])
    /\ UNCHANGED faults

MarkLive == MarkStep("written") /\ UNCHANGED faults

ScheduledRunLive == RunStep /\ UNCHANGED <<runs, faults>>

NextLive ==
    \/ StartLive
    \/ FetchLive
    \/ ProcessLive
    \/ PublishLive
    \/ MarkLive
    \/ EndCity
    \/ ScheduledRunLive

SpecLive == Init /\ [][NextLive]_vars /\ WF_vars(NextLive)

\* The parser study: parse_rss on one feed drawn from ParserFeeds; the rest
\* of the program does not take part.
InitParser ==
    /\ InitPipeline
    /\ parsed_feed \in ParserFeeds
    /\ parsed_news = NotParsed

ParseFeed ==
    /\ parsed_news.status = "pending"
    /\ parsed_feed # <<>>
    /\ parsed_news' = parse_rss_entries(parsed_feed, ParserFeedUrl)
    /\ UNCHANGED <<phase, city, published_hashes, storage_file, raw_news,
                   filtered_news, idx, processed_news, feed_answers,
                   hashes_at_filter, spam_log, summarized, rejected,
                   publish_log, marked, last_summary, last_publish, run_log,
                   failed_now, failed_before,
                   delivered, channels, delivered_before,
                   marked_ever, marked_entries, runs, faults, parsed_feed>>

NextParser == ParseFeed

SpecParser == InitParser /\ [][NextParser]_vars

----------------------------------------------------------------------------
\* Properties.

\* A process_city_news call is under way.
InCall == phase \in {"process", "publish", "mark"}

\* The hashes of the entries of a list.
HashesOf(news_list) == {get_news_hash(news_list[k]) : k \in 1..Len(news_list)}

\* The entries publish_news returned True for in this call, in order.
Successes ==
    LET ok == SelectSeq(publish_log, LAMBDA e : e.success)
    IN  [k \in 1..Len(ok) |-> ok[k].news]

(***************************************************************************)
(* C1: a fingerprint is in the published set only if a publish_news call   *)
(* for an entry with that fingerprint returned True: within a              *)
(* process_city_news call the entries marked are exactly those publish_news*)
(* returned True for (the last of them still waiting when the call is      *)
(* about to mark it), and the set is what it was at the filter step plus   *)
(* the fingerprints of the marked entries, so a rejected entry or a failed *)
(* send adds nothing.                                                      *)
(***************************************************************************)
C1_MarkedOnlyAfterSuccess ==
    /\ published_hashes \subseteq delivered
    /\ InCall =>
          /\ marked = IF phase = "mark"
                      THEN SubSeq(Successes, 1, Len(Successes) - 1)
                      ELSE Successes
          /\ published_hashes = hashes_at_filter \cup HashesOf(marked)

\* A call in which one send failed and another entry was published and marked.
C1_Witness ==
    /\ InCall
    /\ marked # <<>>
    /\ \E k \in 1..Len(publish_log) : ~publish_log[k].success
    /\ Len(summarized) > Len(publish_log)

(***************************************************************************)
(* C2: an entry whose fingerprint is in the published set when the city's  *)
(* filter step runs is excluded by it: in that process_city_news call no   *)
(* such entry is in the filter's output, is handed to process_news or is   *)
(* handed to publish_news.                                                 *)
(***************************************************************************)
C2_DuplicatesExcluded ==
    InCall =>
        /\ HashesOf(filtered_news) \cap hashes_at_filter = {}
        /\ HashesOf(summarized) \cap hashes_at_filter = {}
        /\ \A k \in 1..Len(publish_log) :
              get_news_hash(publish_log[k].news) \notin hashes_at_filter

\* A later run whose feed brings back an entry published before, after the
\* loop has worked on other entries.
C2_Witness ==
    /\ InCall
    /\ runs = 2
    /\ HashesOf(raw_news) \cap hashes_at_filter # {}
    /\ publish_log # <<>>

(***************************************************************************)
(* C3: when the feeds of one city bring two entries with the same title    *)
(* and link in one run, at most one publish_news call succeeds for that    *)
(* fingerprint in that process_city_news call.                             *)
(***************************************************************************)
C3_OnePublishPerFingerprint ==
    \A j \in 1..Len(publish_log), k \in 1..Len(publish_log) :
        (/\ j # k
         /\ publish_log[j].success
         /\ publish_log[k].success
         /\ Title[publish_log[j].news] = Title[publish_log[k].news]
         /\ Link[publish_log[j].news] = Link[publish_log[k].news]) => FALSE

(***************************************************************************)
(* C4: once mark_as_published has returned for an entry, is_duplicate is   *)
(* true for it for the rest of the process lifetime and in every later     *)
(* lifetime, whatever the save step did: every fingerprint                 *)
(* mark_as_published has returned for is in the published set.             *)
(***************************************************************************)
C4_MarkIsDurable == marked_ever \subseteq published_hashes

(***************************************************************************)
(* C5: an entry delivered by a publish_news call before a crash is not     *)
(* delivered again after the restart: no publish_news call of this process *)
(* lifetime succeeds for a fingerprint delivered in an earlier lifetime.   *)
(***************************************************************************)
C5_NoRepostAfterCrash ==
    \A k \in 1..Len(publish_log) :
        publish_log[k].success =>
            get_news_hash(publish_log[k].news) \notin delivered_before

SendsBy(call, method) ==
    SelectSeq(call.sends, LAMBDA s : s.method = method)

(***************************************************************************)
(* C7: for a post with an image, publish_news sends the photo once, and    *)
(* when that send fails makes exactly one text-only send with the same     *)
(* text as the caption, and returns True exactly when the send it made     *)
(* last succeeded; for a post without an image it makes exactly one        *)
(* text-only send, no photo send, and returns what that send gave.         *)
(***************************************************************************)
C7_PublisherFallback ==
    last_publish # <<>> =>
        LET call == last_publish[1]
            photos == SendsBy(call, "send_photo")
            texts == SendsBy(call, "send_message")
        IN  /\ \A k \in 1..Len(call.sends) :
                  /\ call.sends[k].text = render(call.news)
                  /\ call.sends[k].chat_id = ChannelId[CityKey]
            /\ IF call.news.image_url # None
               THEN /\ Len(photos) = 1
                    /\ call.sends[1] = photos[1]
                    /\ photos[1].photo = call.news.image_url
                    /\ IF photos[1].ok
                       THEN Len(texts) = 0 /\ call.result
                       ELSE /\ Len(texts) = 1
                            /\ call.sends = <<photos[1], texts[1]>>
                            /\ call.result = texts[1].ok
               ELSE /\ Len(photos) = 0
                    /\ Len(texts) = 1
                    /\ call.result = texts[1].ok

\* A post with an image whose photo send failed and whose text-only send
\* went through.
C7_Witness ==
    /\ last_publish # <<>>
    /\ last_publish[1].news.image_url # None
    /\ Len(last_publish[1].sends) = 2
    /\ ~last_publish[1].sends[1].ok
    /\ last_publish[1].result

(***************************************************************************)
(* C8: process_news rejects an entry exactly when its short description    *)
(* (cleaned, translated or left as it was, cut to 3 sentences) has fewer   *)
(* than 20 characters, whatever the title's length; an entry so rejected   *)
(* is not handed to publish_news, and only entries publish_news returned   *)
(* True for are marked.                                                    *)
(***************************************************************************)
C8_ShortNeverPublished ==
    /\ last_summary # <<>> =>
          /\ (last_summary[1].post = <<>>) <=> (Len(last_summary[1].short_desc) < 20)
          /\ last_summary[1].post = processed_news
    /\ phase = "publish" =>
          /\ last_summary # <<>>
          /\ last_summary[1].news = batch(filtered_news)[idx]
          /\ Len(last_summary[1].short_desc) >= 20
          /\ processed_news[1].text = last_summary[1].short_desc
    /\ Len(publish_log) <= Len(summarized)
    /\ \A k \in 1..Len(marked) :
          \E j \in 1..Len(publish_log) :
              publish_log[j].news = marked[k] /\ publish_log[j].success

\* An entry with a long description whose first three sentences are short
\* has just been rejected.
C8_Witness ==
    /\ last_summary # <<>>
    /\ last_summary[1].post = <<>>
    /\ Len(last_summary[1].short_desc) < 20
    /\ Len(Description[last_summary[1].news]) >= 20
    /\ phase = "process"

\* Whether a word occurs in a text.
C9_Occurs(word, text) ==
    \E i \in 1..Len(text) :
        /\ i + Len(word) - 1 <= Len(text)
        /\ SubSeq(text, i, i + Len(word) - 1) = word

\* Whether a spam keyword occurs in title, space, description, lowercased.
C9_Spam ==
    [news \in Items |->
        \E k \in 1..Len(SPAM_KEYWORDS) :
            C9_Occurs(SPAM_KEYWORDS[k],
                      Lower(Title[news] \o <<" ">> \o Description[news]))]

\* Whether a keyword of the city occurs in it, case ignored.
C9_Relevant ==
    [c \in DOMAIN Keywords |->
        [news \in Items |->
            \E k \in 1..Len(Keywords[c]) :
                C9_Occurs(Lower(Keywords[c][k]),
                          Lower(Title[news] \o <<" ">> \o Description[news]))]]

(***************************************************************************)
(* C9: filter_news returns the subsequence of its input, in input order,   *)
(* of the entries that are not duplicates, are not spam and contain a      *)
(* keyword of the city (keywords searched, case ignored, in the title, a   *)
(* space and the description); the duplicate check comes before the spam   *)
(* check and the spam check before the keyword check, so the entries       *)
(* logged as spam are the spam entries that are not duplicates, relevant   *)
(* or not.                                                                 *)
(***************************************************************************)
C9_FilterIsSubsequence ==
    InCall =>
        /\ filtered_news =
              SelectSeq(raw_news,
                        LAMBDA n : /\ get_news_hash(n) \notin hashes_at_filter
                                   /\ ~C9_Spam[n]
                                   /\ C9_Relevant[CityKey][n])
        /\ spam_log =
              SelectSeq(raw_news,
                        LAMBDA n : /\ get_news_hash(n) \notin hashes_at_filter
                                   /\ C9_Spam[n])

\* A filter call whose input holds kept entries, an irrelevant one, a spam
\* entry that is logged and a spam entry that is a duplicate.
C9_Witness ==
    /\ InCall
    /\ Len(filtered_news) >= 2
    /\ spam_log # <<>>
    /\ \E k \in 1..Len(raw_news) :
          get_news_hash(raw_news[k]) \in hashes_at_filter /\ C9_Spam[raw_news[k]]
    /\ \E k \in 1..Len(raw_news) :
          /\ get_news_hash(raw_news[k]) \notin hashes_at_filter
          /\ ~C9_Spam[raw_news[k]]
          /\ ~C9_Relevant[CityKey][raw_news[k]]

(***************************************************************************)
(* C10: in one process_city_news call at most 5 entries are handed to      *)
(* process_news, and they are the first entries of the filter's output, in *)
(* order, whether they are then rejected, fail to be sent or are           *)
(* published; so at most 5 posts are published and at most 5 entries       *)
(* marked per city and run.                                                *)
(***************************************************************************)
C10_PerRunCap ==
    InCall =>
        /\ Len(summarized) <= 5
        /\ summarized = SubSeq(filtered_news, 1, Len(summarized))
        /\ Len(summarized) = IF phase = "process" THEN idx - 1 ELSE idx
        /\ Len(publish_log) <= 5
        /\ Len(marked) <= 5
        /\ Cardinality(published_hashes \ hashes_at_filter) <= 5

\* The filter kept more than 5 entries, the loop is over after 5 and one of
\* the 5 was rejected or failed.
C10_Witness ==
    /\ phase = "process"
    /\ Len(filtered_news) > 5
    /\ idx > Len(batch(filtered_news))
    /\ Len(summarized) = 5
    /\ Len(marked) < 5

\* The entries of a list.
EntriesOf(news_list) == {news_list[k] : k \in 1..Len(news_list)}

\* The loop of process_city_news is over.
LoopOver == phase = "process" /\ idx > Len(batch(filtered_news))

\* The entries publish_news returned False for in the run before this one,
\* for this city, that the city's feeds deliver again, still not spam, still
\* relevant and still unmarked when the filter runs.
C11_Retries ==
    {n \in EntriesOf(raw_news) :
        /\ <<city, n>> \in failed_before
        /\ ~C9_Spam[n]
        /\ C9_Relevant[CityKey][n]
        /\ get_news_hash(n) \notin hashes_at_filter}

\* A failed publish_news call does not mark its entry.
C11_FailureLeavesUnmarked ==
    \A k \in 1..Len(publish_log) :
        ~publish_log[k].success => publish_log[k].news \notin EntriesOf(marked)

(***************************************************************************)
(* C11, as claimed: an entry whose publish_news call returned False in run *)
(* k is left unmarked, and when the feed delivers it again in run k+1,     *)
(* relevant, not spam and still unmarked, it is handed to process_news and *)
(* to publish_news again in that run.                                      *)
(***************************************************************************)
C11_RetriedInNextRun ==
    /\ C11_FailureLeavesUnmarked
    /\ LoopOver =>
          \A n \in C11_Retries :
              /\ n \in EntriesOf(summarized)
              /\ \E k \in 1..Len(publish_log) : publish_log[k].news = n

(***************************************************************************)
(* C11, amended: an entry whose publish_news call returned False in run k  *)
(* is not marked by that call, and when the feed delivers it again in run  *)
(* k+1, relevant, not spam and still unmarked, it is in the output of      *)
(* filter_news in run k+1; it is handed to process_news in that run        *)
(* exactly when it is among the first 5 entries of that output, and to     *)
(* publish_news exactly when process_news returns a post for it.           *)
(***************************************************************************)
C11_RetriedWhenInBatch ==
    /\ C11_FailureLeavesUnmarked
    /\ InCall =>
          \A n \in C11_Retries :
              /\ n \in EntriesOf(filtered_news)
              /\ LoopOver =>
                    /\ n \in EntriesOf(summarized) <=>
                          \E k \in 1..5 :
                              k <= Len(filtered_news) /\ filtered_news[k] = n
                    /\ (\E k \in 1..Len(publish_log) : publish_log[k].news = n) <=>
                          (n \in EntriesOf(summarized) /\ n \notin EntriesOf(rejected))

\* An entry that failed in the run before has been handed to publish_news
\* again.
C11_Witness ==
    /\ InCall
    /\ \E n \in C11_Retries :
          \E k \in 1..Len(publish_log) : publish_log[k].news = n

\* The cities the current run_once call has finished, in order.
C12_Finished == [k \in 1..Len(run_log) |-> run_log[k].city]

\* run_once goes through the cities in configuration order, none left out.
C12_InOrder ==
    /\ phase \in {"fetch", "process", "publish", "mark"} =>
          C12_Finished = [k \in 1..(city - 1) |-> k]
    /\ phase = "idle" => C12_Finished = [k \in 1..Len(CityKeys) |-> k]

\* The steps one process_city_news call can take at most: the fetch, then
\* for each entry of the batch process_news, publish_news, mark_as_published,
\* then the end of the loop.
C12_CallSpan == 3 * PerRunCap + 2

\* How far the current run_once call has come.
C12_Rank ==
    (city - 1) * C12_CallSpan +
        CASE phase = "fetch" -> 0
          [] phase = "process" -> 3 * (idx - 1) + 1
          [] phase = "publish" -> 3 * (idx - 1) + 2
          [] phase = "mark" -> 3 * (idx - 1) + 3
          [] OTHER -> 0

\* A step of a run_once call either ends the call, after the last city's
\* loop, or moves the call forward.
C12_Forward ==
    phase \in {"fetch", "process", "publish", "mark"} =>
        \/ /\ phase' = "idle"
           /\ city = Len(CityKeys)
           /\ LoopOver
        \/ /\ phase' \in {"fetch", "process", "publish", "mark"}
           /\ C12_Rank' > C12_Rank
           /\ C12_Rank' <= Len(CityKeys) * C12_CallSpan

\* Inside the loop some step of the call is possible whatever has failed.
C12_NeverStuck == InCall => ENABLED NextRun

(***************************************************************************)
(* C12: whatever feeds fail, entries are rejected, translations fail,      *)
(* sends fail and saves fail, a run_once call that has begun ends, having  *)
(* gone through every city in configuration order; a city whose entries    *)
(* all fail marks nothing and the next city follows. The call ends because *)
(* each of its steps moves it forward by a bounded measure, a step is      *)
(* always possible, and it ends only after the last city.                  *)
(***************************************************************************)
C12_RunAlwaysCompletes ==
    /\ []C12_InOrder
    /\ []C12_NeverStuck
    /\ [][C12_Forward]_vars

\* A finished run in which a city that is not the last handed entries to
\* process_news and marked none, after a feed, a translation or a send failed.
C12_Witness ==
    /\ phase = "idle"
    /\ faults > 0
    /\ \E k \in 1..(Len(run_log) - 1) :
          run_log[k].summarized > 0 /\ run_log[k].marks = 0

\* What source k of the current city contributes: the first 10 entries of its
\* feed when it answered, nothing when it failed.
C13_Part(k) ==
    LET feed == FeedEntries[Sources[CityKey][k]]
    IN  IF feed_answers[k]
        THEN [i \in 1..(IF Len(feed) < 10 THEN Len(feed) ELSE 10) |-> feed[i]]
        ELSE <<>>

\* Where the contribution of source k begins in the result.
C13_Offset[k \in 1..4] ==
    IF k = 1 THEN 0 ELSE C13_Offset[k - 1] + Len(C13_Part(k - 1))

(***************************************************************************)
(* C13: a failing feed contributes nothing and raises nothing, and the     *)
(* result of fetch_all_news is the per-source results one after the other  *)
(* in source order: every source that answered has its entries (at most    *)
(* 10, in feed order) in the result whatever happened to the others.       *)
(***************************************************************************)
C13_SourcesIsolated ==
    InCall =>
        LET n == Len(Sources[CityKey])
        IN  /\ Len(feed_answers) = n
            /\ Len(raw_news) = C13_Offset[n + 1]
            /\ \A k \in 1..n :
                  /\ Len(C13_Part(k)) <= 10
                  /\ \A i \in 1..Len(C13_Part(k)) :
                        raw_news[C13_Offset[k] + i] = C13_Part(k)[i]

\* The first source of a city failed and the second, whose feed has more
\* than 10 entries, answered: its first 10 entries are the result.
C13_Witness ==
    /\ InCall
    /\ Len(feed_answers) = 2
    /\ ~feed_answers[1]
    /\ feed_answers[2]
    /\ Len(FeedEntries[Sources[CityKey][2]]) > 10
    /\ Len(raw_news) = 10

\* What each of the methods 1 to 5 of _extract_image finds in an entry.
C14_Methods(entry) ==
    <<media_content_image(entry), media_thumbnail_image(entry),
      enclosure_image(entry), summary_image(entry, ParserFeedUrl),
      content_image(entry)>>

\* The methods among 1 to 5 that find a URL in an entry.
C14_Yielding(entry) == {s \in 1..5 : C14_Methods(entry)[s].url # <<>>}

\* An img of the article's page that the third step of the fallback accepts.
C14_Qualifies(img) ==
    /\ img.src # <<>>
    /\ \A name \in NotArticleImages : ~Contains(Lower(img.src), name)
    /\ IsDigit(img.width)
    /\ IntOf(img.width) >= 300

\* The fallback's answer for an article is in the order Open Graph image,
\* Twitter Card image, first accepted img; nothing when the fetch failed.
C14_FallbackOrder(article, url) ==
    IF article.get_raises \/ article.rejected THEN url = <<>>
    ELSE /\ article.og_image # <<>> => url = article.og_image
         /\ article.og_image = <<>> /\ article.twitter_image # <<>> =>
               url = article.twitter_image
         /\ article.og_image = <<>> /\ article.twitter_image = <<>> =>
               \/ /\ url = <<>>
                  /\ \A j \in 1..Len(article.imgs) : ~C14_Qualifies(article.imgs[j])
               \/ \E j \in 1..Len(article.imgs) :
                     /\ C14_Qualifies(article.imgs[j])
                     /\ url = article.imgs[j].src
                     /\ \A i \in 1..(j - 1) : ~C14_Qualifies(article.imgs[i])

(***************************************************************************)
(* C14: the image of a news item is what the first of the methods          *)
(* media:content, media:thumbnail, enclosure, img of the description, img  *)
(* of the full content that finds a URL found, whatever the later methods  *)
(* would find; the article is fetched only when none of the five found     *)
(* one, and then the image is the Open Graph image, else the Twitter Card  *)
(* image, else the first accepted img of the page.                         *)
(***************************************************************************)
C14_FirstStrategyWins ==
    parsed_news.status = "ok" =>
        \A k \in 1..Len(parsed_news.items) :
            LET entry == parsed_feed[k]
                item == parsed_news.items[k]
            IN  IF C14_Yielding(entry) # {}
                THEN /\ item.image_url =
                            C14_Methods(entry)[Min(C14_Yielding(entry))].url
                     /\ ~item.fetched
                ELSE /\ item.fetched
                     /\ C14_FallbackOrder(entry.article, item.image_url)

\* An entry in which media:content has no image while the thumbnail, the
\* enclosure and the article's page each have one has been parsed: the
\* thumbnail's URL is the item's image.
C14_Witness ==
    /\ parsed_news.status = "ok"
    /\ Len(parsed_feed) = 1
    /\ C14_Yielding(parsed_feed[1]) = {2, 3}
    /\ parsed_feed[1].article.og_image # <<>>
    /\ parsed_news.items[1].image_url = parsed_feed[1].media_thumbnail[1].url

\* No method of _extract_image has an image for the entry.
C15_NoImage(entry) ==
    /\ C14_Yielding(entry) = {}
    /\ fetch_image_from_article(entry.article) = <<>>

(***************************************************************************)
(* C15: whatever the image methods meet in the entries of a feed (no       *)
(* image anywhere, markup the HTML parser rejects, an article that cannot  *)
(* be fetched), parse_rss returns one news item per entry, and the item of *)
(* an entry without image has no image_url.                                *)
(***************************************************************************)
C15_MissingImageNeverFails ==
    parsed_news.status # "pending" =>
        /\ parsed_news.status = "ok"
        /\ Len(parsed_news.items) = Len(parsed_feed)
        /\ \A k \in 1..Len(parsed_news.items) :
              C15_NoImage(parsed_feed[k]) =>
                  parsed_news.items[k].image_url = <<>>

\* The first three sentences of an entry's cleaned description, as the feed
\* gave it and as the translator renders it.
C16_SourceText ==
    [news \in Items |-> shorten_text(clean_html(Description[news]), 3)]

C16_RussianText ==
    [news \in Items |->
        shorten_text(GoogleTranslate(clean_html(Description[news])), 3)]

\* The title and the text process_news ends with when the translator
\* answered or failed for each.
C16_Title(news, title_ok) ==
    IF title_ok THEN GoogleTranslate(Title[news]) ELSE Title[news]

C16_Text(news, desc_ok) ==
    IF desc_ok THEN C16_RussianText[news] ELSE C16_SourceText[news]

\* A post process_news returned carries, field by field, the translation
\* where the translator answered and the source text where it failed.
C16_FieldsDegrade ==
    last_summary # <<>> /\ last_summary[1].post # <<>> =>
        LET call == last_summary[1]
        IN  /\ call.post[1].title = C16_Title(call.news, call.title_ok)
            /\ call.post[1].text = C16_Text(call.news, call.desc_ok)

(***************************************************************************)
(* C16 as stated: when the translator fails for the title or for the       *)
(* description process_news goes on with the source text of that field,    *)
(* returns a post whenever the short description it ends with has at       *)
(* least 20 characters, and a translation failure alone never makes it     *)
(* return nothing: an entry it rejects would have been rejected with the   *)
(* translator answering.                                                   *)
(***************************************************************************)
C16_TranslationNeverRejects ==
    /\ C16_FieldsDegrade
    /\ last_summary # <<>> =>
          LET call == last_summary[1]
          IN  /\ Len(C16_Text(call.news, call.desc_ok)) >= MinDescLen =>
                    call.post # <<>>
              /\ call.post = <<>> =>
                    Len(C16_RussianText[call.news]) < MinDescLen

(***************************************************************************)
(* C16, amended: when the translator fails for the title or for the        *)
(* description process_news goes on with the source text of that field,    *)
(* and it returns nothing exactly when the short description it ends with  *)
(* (of the source text where the translation failed) has fewer than 20     *)
(* characters.                                                             *)
(***************************************************************************)
C16_DegradesPerField ==
    /\ C16_FieldsDegrade
    /\ last_summary # <<>> =>
          LET call == last_summary[1]
          IN  (call.post = <<>>) <=>
                  (Len(C16_Text(call.news, call.desc_ok)) < MinDescLen)

\* The translator failed for the title and answered for the description: the
\* post has the source title and the translated text.
C16_Witness ==
    /\ last_summary # <<>>
    /\ ~last_summary[1].title_ok
    /\ last_summary[1].desc_ok
    /\ last_summary[1].post # <<>>
    /\ last_summary[1].post[1].title = Title[last_summary[1].news]
    /\ last_summary[1].post[1].title # GoogleTranslate(Title[last_summary[1].news])
    /\ last_summary[1].post[1].text # C16_SourceText[last_summary[1].news]

\* Two entries with the same title and the same link.
C17_SamePair(n, m) == Title[n] = Title[m] /\ Link[n] = Link[m]

(***************************************************************************)
(* C17: entries with the same title and the same link have the same        *)
(* fingerprint at every computation, whatever else differs in them and in  *)
(* whichever process lifetime: once mark_as_published has been called for  *)
(* one of them, the fingerprint the filter computes for the other is the   *)
(* marked one, and the filter of a call that began with that fingerprint   *)
(* in the set leaves the other out.                                        *)
(***************************************************************************)
C17_FingerprintOfPair ==
    /\ \A n \in Items : \A m \in Items :
          C17_SamePair(n, m) => get_news_hash(n) = get_news_hash(m)
    /\ InCall =>
          \A n \in EntriesOf(raw_news) : \A m \in marked_entries :
              C17_SamePair(n, m) =>
                  /\ get_news_hash(n) \in marked_ever
                  /\ get_news_hash(m) \in hashes_at_filter =>
                        n \notin EntriesOf(filtered_news)

\* In a second process lifetime the filter has left out an entry that was
\* never marked itself: an entry of another source, with another description
\* and an image, but the same title and link, was marked in the first.
C17_Witness ==
    /\ InCall
    /\ runs = 2
    /\ \E n \in EntriesOf(raw_news) : \E m \in marked_entries :
          /\ C17_SamePair(n, m)
          /\ n \notin marked_entries
          /\ Description[n] # Description[m]
          /\ ImageUrl[n] # ImageUrl[m]
          /\ Source[n] # Source[m]
          /\ get_news_hash(m) \in hashes_at_filter
          /\ n \notin EntriesOf(filtered_news)

\* What a step may do if cities, entries and runs are handled one after the
\* other.
C18_Step ==
    \* the city changes only when its loop is over (or the process dies)
    /\ city' # city => LoopOver \/ phase' = "down"
    \* a fetch begins at a start, at a scheduled run, or after the loop of
    \* the city before
    /\ phase' = "fetch" =>
          \/ phase \in {"down", "idle"} /\ city' = 1
          \/ LoopOver /\ city' = city + 1
    \* a run begins only when none is under way
    /\ runs' # runs => phase \in {"down", "idle"}
    \* an entry is handed to process_news only when the entry before it has
    \* left the loop body
    /\ summarized' # summarized /\ summarized' # <<>> =>
          /\ phase = "process"
          /\ summarized' = Append(summarized, batch(filtered_news)[idx])
    \* between process_news and the end of mark_as_published the entry is
    \* the same one
    /\ phase \in {"publish", "mark"} /\ phase' \in {"publish", "mark"} =>
          idx' = idx /\ city' = city /\ summarized' = summarized
    \* the set changes only for the entry that is being marked (or at a
    \* start, when the file is loaded)
    /\ published_hashes' # published_hashes =>
          \/ phase = "down"
          \/ /\ phase = "mark"
             /\ published_hashes' =
                   published_hashes \cup {get_news_hash(batch(filtered_news)[idx])}

C19_Steady ==
    {n \in Items :
        /\ \E c \in 1..Len(CityKeys) :
              /\ \E k \in 1..Len(Sources[CityKeys[c]]) :
                    n \in EntriesOf(Prefix(FeedEntries[Sources[CityKeys[c]][k]], 10))
              /\ C9_Relevant[CityKeys[c]][n]
        /\ ~C9_Spam[n]
        /\ \A desc_ok \in BOOLEAN : Len(C16_Text(n, desc_ok)) >= MinDescLen}

(***************************************************************************)
(* C19: with every feed answering on every run and every send accepted, an *)
(* entry that stays in its feed, passes the filter and summarizes to a     *)
(* post is published in some run, whatever entries stand before it in the  *)
(* filter's output.                                                        *)
(***************************************************************************)
C19_NoStarvation ==
    \A n \in C19_Steady : <>(get_news_hash(n) \in marked_ever)

(***************************************************************************)
(* C20: is_duplicate is true for an entry only if an entry with the same   *)
(* title and the same link was marked published before; entries whose      *)
(* titles or links differ are never taken for one another, not even when   *)
(* title followed by link reads the same for both.                         *)
(***************************************************************************)
C20_DuplicateOnlyIfSamePair ==
    InCall =>
        \A n \in EntriesOf(raw_news) :
            is_duplicate(n, hashes_at_filter) =>
                \E m \in marked_entries : C17_SamePair(n, m)

\* The filter of the current call kept no entry whose title and link are
\* those of an entry marked before the call: if such an entry was marked at
\* all, it was marked in this call, after the filter had run.
C21_MarkedAreExcluded ==
    InCall =>
        \A n \in EntriesOf(filtered_news) : \A m \in marked_entries :
            C17_SamePair(n, m) =>
                \E j \in EntriesOf(marked) : C17_SamePair(n, j)

\* No fingerprint has been delivered to two channels.
C21_OneChannel ==
    \A p \in channels : \A q \in channels : p[1] = q[1] => p[2] = q[2]

(***************************************************************************)
(* C21: the set of published fingerprints is one set for all cities: once  *)
(* an entry has been published and marked for one city's channel, the      *)
(* filter of every city handled afterwards, in the same run and in later   *)
(* runs, leaves out the entries with the same title and link, so that a    *)
(* fingerprint is delivered to one channel at most.                        *)
(***************************************************************************)
C21_SharedAcrossRegions == C21_MarkedAreExcluded /\ C21_OneChannel

=============================================================================
